---- MODULE Spec2Model ----
(***************************************************************************)
(* TreeSift: the analyzer pipeline of TreeSift.analyze and the analyzers   *)
(* it runs over a Babel syntax tree, each mutating the shared              *)
(* ComponentContext.                                                       *)
(*                                                                         *)
(* JavaScript values are modelled as follows.                              *)
(*   string            a TLA+ string                                       *)
(*   string | null     <<>> for null, <<s>> for the string s               *)
(*   array             a sequence                                          *)
(*   AST node          a record with a `type` field (the Babel node type)  *)
(*                     and the fields the analyzers read; an absent child  *)
(*                     is NullNode                                         *)
(*   `any` value       a tagged record, see JString .. JObject             *)
(***************************************************************************)
EXTENDS Integers, Sequences, FiniteSets, TLC

(***************************************************************************)
(* Bounds of the model.                                                    *)
(***************************************************************************)
\* Longest program body (number of top-level statements) that is analyzed.
MaxStmts == 2
\* Number of TreeSift.analyze calls in one behaviour.
MaxRuns == 2

(***************************************************************************)
(* Generic helpers.                                                        *)
(***************************************************************************)
\* Array.prototype.reduce over a sequence.
FoldLeft(op(_, _), acc, seq) ==
  LET RECURSIVE fold(_, _, _)
      \* The fold of seq[lo..hi] from `a`, by halves: `left` is the value
      \* after seq[lo..mid], computed before the fold goes on with the rest.
      fold(a, lo, hi) ==
        IF lo > hi THEN a
        ELSE IF lo = hi THEN op(a, seq[lo])
        ELSE LET mid == (lo + hi) \div 2
             IN CHOOSE r \in {fold(left, mid + 1, hi) : left \in {fold(a, lo, mid)}} :
                  TRUE
  IN fold(acc, 1, Len(seq))

\* Array.prototype.flat over a sequence of sequences.
Flat(seqs) ==
  LET cat(a, b) == a \o b IN FoldLeft(cat, <<>>, seqs)

\* Array.prototype.map.
Map(op(_), seq) ==
  LET push(acc, x) == Append(acc, op(x)) IN FoldLeft(push, <<>>, seq)

\* The indices 1, ..., n in order.
Range(n) == [i \in 1..n |-> i]

\* Array.prototype.filter.
Filter(test(_), seq) ==
  LET keep(acc, x) == IF test(x) THEN Append(acc, x) ELSE acc
  IN FoldLeft(keep, <<>>, seq)

\* Array.prototype.includes / Set.prototype.has on a sequence.
Has(seq, x) == \E i \in 1..Len(seq) : seq[i] = x

\* Set.prototype.add on an insertion-ordered set kept as a sequence.
SetAdd(seq, x) == IF Has(seq, x) THEN seq ELSE Append(seq, x)

\* String.prototype.startsWith
startsWith(s, p) == Len(s) >= Len(p) /\ SubSeq(s, 1, Len(p)) = p

\* String.prototype.endsWith
endsWith(s, p) == Len(s) >= Len(p) /\ SubSeq(s, Len(s) - Len(p) + 1, Len(s)) = p

\* String.prototype.includes
includes(s, p) ==
  \E i \in 1..(Len(s) - Len(p) + 1) : SubSeq(s, i, i + Len(p) - 1) = p

\* name.match(/^[A-Z]/)
UpperCaseLetters ==
  {"A", "B", "C", "D", "E", "F", "G", "H", "I", "J", "K", "L", "M",
   "N", "O", "P", "Q", "R", "S", "T", "U", "V", "W", "X", "Y", "Z"}

\* A match that accepts any first character.
matchAnyCase(s) == Len(s) >= 1

matchUpper(s) == Len(s) >= 1 /\ SubSeq(s, 1, 1) \in UpperCaseLetters

\* name.match(/^[a-z]/)
LowerCaseLetters ==
  {"a", "b", "c", "d", "e", "f", "g", "h", "i", "j", "k", "l", "m",
   "n", "o", "p", "q", "r", "s", "t", "u", "v", "w", "x", "y", "z"}

matchLower(s) == Len(s) >= 1 /\ SubSeq(s, 1, 1) \in LowerCaseLetters

(***************************************************************************)
(* Babel AST nodes, named after the @babel/types builders.                 *)
(***************************************************************************)
NullNode == [type |-> "null"]

isType(node, ty) == node.type = ty

identifier(name) == [type |-> "Identifier", name |-> name]
stringLiteral(value) == [type |-> "StringLiteral", value |-> value]
numericLiteral(value) == [type |-> "NumericLiteral", value |-> value]
\* A numeric literal too large for a double (1e999): its value is Infinity.
infiniteLiteral == [type |-> "NumericLiteral"]
booleanLiteral(value) == [type |-> "BooleanLiteral", value |-> value]
nullLiteral == [type |-> "NullLiteral"]
templateLiteral(quasis, expressions) ==
  [type |-> "TemplateLiteral", quasis |-> quasis, expressions |-> expressions]
templateElement(raw) == [type |-> "TemplateElement", value |-> [raw |-> raw]]
arrayExpression(elements) == [type |-> "ArrayExpression", elements |-> elements]
objectExpression(properties) ==
  [type |-> "ObjectExpression", properties |-> properties]
objectProperty(key, value) ==
  [type |-> "ObjectProperty", key |-> key, value |-> value]
spreadElement(argument) == [type |-> "SpreadElement", argument |-> argument]
objectPattern(properties) == [type |-> "ObjectPattern", properties |-> properties]
arrayPattern(elements) == [type |-> "ArrayPattern", elements |-> elements]
memberExpression(object, property) ==
  [type |-> "MemberExpression", object |-> object, property |-> property]
callExpression(callee, arguments) ==
  [type |-> "CallExpression", callee |-> callee, arguments |-> arguments]
binaryExpression(operator, left, right) ==
  [type |-> "BinaryExpression", operator |-> operator, left |-> left,
   right |-> right]
conditionalExpression(test, consequent, alternate) ==
  [type |-> "ConditionalExpression", test |-> test, consequent |-> consequent,
   alternate |-> alternate]
taggedTemplateExpression(tag, quasi) ==
  [type |-> "TaggedTemplateExpression", tag |-> tag, quasi |-> quasi]
arrowFunctionExpression(params, body) ==
  [type |-> "ArrowFunctionExpression", params |-> params, body |-> body]
functionExpression(id, params, body) ==
  [type |-> "FunctionExpression", id |-> id, params |-> params, body |-> body]
functionDeclaration(id, params, body) ==
  [type |-> "FunctionDeclaration", id |-> id, params |-> params, body |-> body]
classDeclaration(id, superClass) ==
  [type |-> "ClassDeclaration", id |-> id, superClass |-> superClass]
blockStatement(body) == [type |-> "BlockStatement", body |-> body]
returnStatement(argument) == [type |-> "ReturnStatement", argument |-> argument]
expressionStatement(expression) ==
  [type |-> "ExpressionStatement", expression |-> expression]
variableDeclarator(id, init) ==
  [type |-> "VariableDeclarator", id |-> id, init |-> init]
variableDeclaration(declarations) ==
  [type |-> "VariableDeclaration", declarations |-> declarations]
importSpecifier(local, imported) ==
  [type |-> "ImportSpecifier", local |-> local, imported |-> imported]
importDefaultSpecifier(local) ==
  [type |-> "ImportDefaultSpecifier", local |-> local]
importDeclaration(specifiers, source) ==
  [type |-> "ImportDeclaration", specifiers |-> specifiers, source |-> source]
exportSpecifier(local, exported) ==
  [type |-> "ExportSpecifier", local |-> local, exported |-> exported]
exportNamedDeclaration(declaration, specifiers) ==
  [type |-> "ExportNamedDeclaration", declaration |-> declaration,
   specifiers |-> specifiers]
exportDefaultDeclaration(declaration) ==
  [type |-> "ExportDefaultDeclaration", declaration |-> declaration]
jsxIdentifier(name) == [type |-> "JSXIdentifier", name |-> name]
jsxMemberExpression(object, property) ==
  [type |-> "JSXMemberExpression", object |-> object, property |-> property]
jsxAttribute(name, value) ==
  [type |-> "JSXAttribute", name |-> name, value |-> value]
jsxSpreadAttribute(argument) ==
  [type |-> "JSXSpreadAttribute", argument |-> argument]
jsxExpressionContainer(expression) ==
  [type |-> "JSXExpressionContainer", expression |-> expression]
jsxText(value) == [type |-> "JSXText", value |-> value]
jsxFragment(children) == [type |-> "JSXFragment", children |-> children]
jsxOpeningElement(name, attributes) ==
  [type |-> "JSXOpeningElement", name |-> name, attributes |-> attributes]
jsxElement(name, attributes, children) ==
  [type |-> "JSXElement", openingElement |-> jsxOpeningElement(name, attributes),
   children |-> children]
program(body) == [type |-> "Program", body |-> body]

\* The child nodes of a node in the order @babel/traverse visits them
\* (the VISITOR_KEYS of each node type); absent children are skipped.
ChildNodes(node) ==
  LET opt(n) == IF n.type = "null" THEN <<>> ELSE <<n>>
      ty == node.type
  IN CASE ty \in {"Program", "BlockStatement"} -> node.body
       [] ty = "TemplateLiteral" -> node.quasis \o node.expressions
       [] ty \in {"ArrayExpression", "ArrayPattern"} ->
            Flat(Map(opt, node.elements))
       [] ty \in {"ObjectExpression", "ObjectPattern"} -> node.properties
       [] ty = "ObjectProperty" -> <<node.key, node.value>>
       [] ty \in {"SpreadElement", "JSXSpreadAttribute", "ReturnStatement"} ->
            opt(node.argument)
       [] ty \in {"MemberExpression", "JSXMemberExpression"} ->
            <<node.object, node.property>>
       [] ty = "CallExpression" -> <<node.callee>> \o node.arguments
       [] ty = "BinaryExpression" -> <<node.left, node.right>>
       [] ty = "ConditionalExpression" ->
            <<node.test, node.consequent, node.alternate>>
       [] ty = "TaggedTemplateExpression" -> <<node.tag, node.quasi>>
       [] ty = "ArrowFunctionExpression" -> node.params \o <<node.body>>
       [] ty \in {"FunctionExpression", "FunctionDeclaration"} ->
            opt(node.id) \o node.params \o <<node.body>>
       [] ty = "ClassDeclaration" -> opt(node.id) \o opt(node.superClass)
       [] ty \in {"ExpressionStatement", "JSXExpressionContainer"} ->
            <<node.expression>>
       [] ty = "VariableDeclarator" -> <<node.id>> \o opt(node.init)
       [] ty = "VariableDeclaration" -> node.declarations
       [] ty = "ImportSpecifier" -> <<node.imported, node.local>>
       [] ty = "ImportDefaultSpecifier" -> <<node.local>>
       [] ty = "ImportDeclaration" -> node.specifiers \o <<node.source>>
       [] ty = "ExportSpecifier" -> <<node.local, node.exported>>
       [] ty = "ExportNamedDeclaration" ->
            opt(node.declaration) \o node.specifiers
       [] ty = "ExportDefaultDeclaration" -> <<node.declaration>>
       [] ty = "JSXAttribute" -> <<node.name>> \o opt(node.value)
       [] ty = "JSXFragment" -> node.children
       [] ty = "JSXOpeningElement" -> <<node.name>> \o node.attributes
       [] ty = "JSXElement" -> <<node.openingElement>> \o node.children
       [] OTHER -> <<>>

\* ASTParser.traverseAST: the paths handed to the callback, in `enter`
\* (pre-order, document) order.  A path carries its node and its parent's.
RECURSIVE traverseFrom(_, _)
traverseFrom(node, parent) ==
  LET sub(child) == traverseFrom(child, node)
  IN <<[node |-> node, parentNode |-> parent]>> \o Flat(Map(sub, ChildNodes(node)))

traverseAST(ast) == traverseFrom(ast, NullNode)

(***************************************************************************)
(* ComponentContext                                                        *)
(***************************************************************************)
\* A context created without its `dependencies` object.
createContextWithoutDependencies(path) ==
  [name |-> "Unknown",
   filePath |-> path,
   exportType |-> "named",
   type |-> "Unknown",
   props |-> <<>>,
   hooks |-> <<>>,
   cvaConfigs |-> <<>>,
   classNames |-> [importSource |-> <<>>, importName |-> <<>>, usages |-> <<>>],
   classNamesUsage |-> [hasClassNames |-> FALSE, importSource |-> "", usage |-> <<>>],
   jsxStructure |-> <<>>,
   contexts |-> [consumes |-> <<>>, provides |-> <<>>],
   hocWrappers |-> <<>>,
   stylingLibrary |-> [type |-> "unknown", confidence |-> 0, indicators |-> <<>>]]

\* createComponentContext(filePath).  `dependencies` has no `components`
\* key until JSXElementAnalyzer assigns it.
createComponentContext(path) ==
  [name |-> "Unknown",
   filePath |-> path,
   exportType |-> "named",
   type |-> "Unknown",
   props |-> <<>>,
   hooks |-> <<>>,
   cvaConfigs |-> <<>>,
   classNames |-> [importSource |-> <<>>, importName |-> <<>>, usages |-> <<>>],
   classNamesUsage |-> [hasClassNames |-> FALSE, importSource |-> "", usage |-> <<>>],
   dependencies |-> [packages |-> <<>>],
   jsxStructure |-> <<>>,
   contexts |-> [consumes |-> <<>>, provides |-> <<>>],
   hocWrappers |-> <<>>,
   stylingLibrary |-> [type |-> "unknown", confidence |-> 0, indicators |-> <<>>]]

\* obj[key] = value on an object that may not have the key yet.
SetProperty(obj, key, value) ==
  (key :> value) @@ obj

(***************************************************************************)
(* ComponentNameAnalyzer                                                   *)
(***************************************************************************)
isForwardRefCall(node) ==
  IF ~isType(node, "CallExpression") THEN FALSE
  ELSE IF /\ isType(node.callee, "MemberExpression")
          /\ isType(node.callee.object, "Identifier")
          /\ isType(node.callee.property, "Identifier")
          /\ node.callee.object.name = "React"
          /\ node.callee.property.name = "forwardRef"
       THEN TRUE
  ELSE IF isType(node.callee, "Identifier") /\ node.callee.name = "forwardRef"
       THEN TRUE
  ELSE FALSE

\* Returns <<type>>, or <<>> for null.
analyzeComponentDeclaration(node, expectedName) ==
  IF /\ isType(node, "VariableDeclarator")
     /\ isType(node.id, "Identifier")
     /\ node.id.name = expectedName
  THEN IF isType(node.init, "ArrowFunctionExpression")
         THEN <<"ArrowFunctionExpression">>
       ELSE IF isType(node.init, "FunctionExpression")
         THEN <<"FunctionExpression">>
       ELSE IF isForwardRefCall(node.init) THEN <<"ForwardRefComponent">>
       ELSE <<>>
  ELSE IF /\ isType(node, "FunctionDeclaration")
          /\ isType(node.id, "Identifier")
          /\ node.id.name = expectedName
       THEN <<"FunctionDeclaration">>
  ELSE IF /\ isType(node, "ClassDeclaration")
          /\ isType(node.id, "Identifier")
          /\ node.id.name = expectedName
       THEN <<"ClassDeclaration">>
  ELSE <<>>

\* Returns <<[name, type]>>, or <<>> for null.  The argument is an AST node,
\* which has no `parentPath` property: node.parentPath?.node is undefined.
analyzeNamedExport(node) ==
  LET parentPathNode == NullNode
  IN
  IF /\ isType(node, "ExportNamedDeclaration")
     /\ isType(node.declaration, "FunctionDeclaration")
     /\ isType(node.declaration.id, "Identifier")
     /\ matchUpper(node.declaration.id.name)
  THEN <<[name |-> node.declaration.id.name, type |-> "FunctionDeclaration"]>>
  ELSE IF /\ isType(node, "VariableDeclarator")
          /\ isType(node.id, "Identifier")
          /\ matchUpper(node.id.name)
          /\ \/ isType(node.init, "ArrowFunctionExpression")
             \/ isType(node.init, "FunctionExpression")
             \/ isForwardRefCall(node.init)
       THEN IF isType(node.init, "ArrowFunctionExpression")
              THEN <<[name |-> node.id.name, type |-> "ArrowFunctionExpression"]>>
            ELSE IF isType(node.init, "FunctionExpression")
              THEN <<[name |-> node.id.name, type |-> "FunctionExpression"]>>
            ELSE <<[name |-> node.id.name, type |-> "ForwardRefComponent"]>>
  ELSE IF /\ isType(node, "ClassDeclaration")
          /\ isType(node.id, "Identifier")
          /\ matchUpper(node.id.name)
       THEN <<[name |-> node.id.name, type |-> "ClassDeclaration"]>>
  ELSE IF /\ isForwardRefCall(node)
          /\ isType(parentPathNode, "VariableDeclarator")
          /\ isType(parentPathNode.id, "Identifier")
       THEN <<[name |-> parentPathNode.id.name, type |-> "ForwardRefComponent"]>>
  ELSE IF /\ isForwardRefCall(node)
          /\ isType(parentPathNode, "ExportNamedDeclaration")
          /\ isType(parentPathNode.declaration, "VariableDeclaration")
          /\ isType(parentPathNode.declaration.declarations[1].id, "Identifier")
       THEN <<[name |-> parentPathNode.declaration.declarations[1].id.name,
               type |-> "ForwardRefComponent"]>>
  ELSE <<>>

detectComponentInfo(ast) ==
  LET \* First pass: look for default export
      first(acc, path) ==
        IF isType(path.node, "ExportDefaultDeclaration")
        THEN IF /\ isType(path.node.declaration, "FunctionDeclaration")
                /\ isType(path.node.declaration.id, "Identifier")
             THEN [componentName |-> path.node.declaration.id.name,
                   componentType |-> "FunctionDeclaration",
                   isDefaultExport |-> TRUE]
             ELSE IF isType(path.node.declaration, "Identifier")
             THEN [acc EXCEPT !.componentName = path.node.declaration.name,
                              !.isDefaultExport = TRUE]
             ELSE acc
        ELSE acc
      \* Second pass: analyze component declarations
      second(acc, path) ==
        IF acc.isDefaultExport /\ acc.componentType = "Unknown"
        THEN LET result == analyzeComponentDeclaration(path.node, acc.componentName)
             IN IF result # <<>> THEN [acc EXCEPT !.componentType = result[1]]
                ELSE acc
        ELSE IF ~acc.isDefaultExport
        THEN LET result == analyzeNamedExport(path.node)
             IN IF result # <<>>
                THEN [acc EXCEPT !.componentName = result[1].name,
                                 !.componentType = result[1].type]
                ELSE acc
        ELSE acc
      init == [componentName |-> "Unknown", componentType |-> "Unknown",
               isDefaultExport |-> FALSE]
      return(final) == [name |-> final.componentName, type |-> final.componentType]
      passes(paths) == return(FoldLeft(second, FoldLeft(first, init, paths), paths))
  IN passes(traverseAST(ast))

ComponentNameAnalyzer(ast, context) ==
  LET store(result) == [context EXCEPT !.name = result.name, !.type = result.type]
  IN store(detectComponentInfo(ast))

(***************************************************************************)
(* ImportAnalyzer                                                          *)
(***************************************************************************)
ImportAnalyzer(ast, context) ==
  LET add(imports, path) ==
        IF isType(path.node, "ImportDeclaration")
        THEN SetAdd(imports, path.node.source.value)
        ELSE imports
      imports == FoldLeft(add, <<>>, traverseAST(ast))
  IN [context EXCEPT !.dependencies = SetProperty(@, "packages", imports)]

(***************************************************************************)
(* PropAnalyzer                                                            *)
(***************************************************************************)
PropRecord(name) == [name |-> name, type |-> "any", isOptional |-> TRUE]

\* The records pushed for the properties of an object pattern.
PatternProps(pattern) ==
  LET isNamed(prop) == isType(prop, "ObjectProperty") /\ isType(prop.key, "Identifier")
      record(prop) == PropRecord(prop.key.name)
  IN Map(record, Filter(isNamed, pattern.properties))

\* The records one visited node adds to props.
propsOf(node) ==
  LET \* Direct props access: props.title
      p1 == IF /\ isType(node, "MemberExpression")
               /\ isType(node.object, "Identifier")
               /\ node.object.name = "props"
               /\ isType(node.property, "Identifier")
            THEN <<PropRecord(node.property.name)>>
            ELSE <<>>
      \* Destructured props in function parameters
      ofParam(param) == IF isType(param, "ObjectPattern")
                        THEN PatternProps(param) ELSE <<>>
      p2 == IF \/ isType(node, "FunctionDeclaration")
               \/ isType(node, "ArrowFunctionExpression")
            THEN Flat(Map(ofParam, node.params))
            ELSE <<>>
      \* Destructured props assignment: const { title } = props;
      p3 == IF /\ isType(node, "VariableDeclarator")
               /\ isType(node.init, "Identifier")
               /\ node.init.name = "props"
               /\ isType(node.id, "ObjectPattern")
            THEN PatternProps(node.id)
            ELSE <<>>
  IN p1 \o p2 \o p3

\* The analyzer recording each prop name once.
PropAnalyzerWithoutDuplicates(ast, context) ==
  LET visit(props, path) == FoldLeft(SetAdd, props, propsOf(path.node))
  IN [context EXCEPT !.props = FoldLeft(visit, <<>>, traverseAST(ast))]

PropAnalyzer(ast, context) ==
  LET visit(props, path) == props \o propsOf(path.node)
      props == FoldLeft(visit, <<>>, traverseAST(ast))
  IN [context EXCEPT !.props = props]

(***************************************************************************)
(* HookAnalyzer                                                            *)
(***************************************************************************)
\* Array.prototype.join
join(strs, sep) ==
  LET cat(acc, i) == IF i = 1 THEN strs[i] ELSE acc \o sep \o strs[i]
  IN FoldLeft(cat, "", Range(Len(strs)))

\* Number.prototype.toString of a literal's value (non-negative integers).
toString(value) == ToString(value)

\* The serialization of an element of an array argument.
serializeElement(el) ==
  IF isType(el, "Identifier") THEN el.name
  ELSE IF isType(el, "StringLiteral") THEN el.value
  ELSE IF isType(el, "NumericLiteral") THEN toString(el.value)
  ELSE "..."

\* The serialization that knows arrow functions only.
serializeArgumentArrowOnly(arg) ==
  IF isType(arg, "Identifier") THEN arg.name
  ELSE IF isType(arg, "StringLiteral") THEN arg.value
  ELSE IF isType(arg, "NumericLiteral") THEN toString(arg.value)
  ELSE IF isType(arg, "ArrayExpression")
    THEN "[" \o join(Map(serializeElement, arg.elements), ", ") \o "]"
  ELSE IF isType(arg, "ArrowFunctionExpression") THEN "() => {...}"
  ELSE "..."

\* The serialization of one argument of a hook call.
serializeArgument(arg) ==
  IF isType(arg, "Identifier") THEN arg.name
  ELSE IF isType(arg, "StringLiteral") THEN arg.value
  ELSE IF isType(arg, "NumericLiteral") THEN toString(arg.value)
  ELSE IF isType(arg, "ArrayExpression")
    THEN "[" \o join(Map(serializeElement, arg.elements), ", ") \o "]"
  ELSE IF \/ isType(arg, "ArrowFunctionExpression")
          \/ isType(arg, "FunctionExpression")
    THEN "() => {...}"
  ELSE "..."

\* The analyzer recording each hook name once, at its first call.
HookAnalyzerOncePerName(ast, context) ==
  LET named(hooks, name) == \E k \in 1..Len(hooks) : hooks[k].name = name
      visit(hooks, path) ==
        IF /\ isType(path.node, "CallExpression")
           /\ isType(path.node.callee, "Identifier")
           /\ startsWith(path.node.callee.name, "use")
           /\ ~named(hooks, path.node.callee.name)
        THEN Append(hooks, [name |-> path.node.callee.name,
                            arguments |-> Map(serializeArgument, path.node.arguments)])
        ELSE hooks
      hooks == FoldLeft(visit, <<>>, traverseAST(ast))
  IN [context EXCEPT !.hooks = hooks]

HookAnalyzer(ast, context) ==
  LET visit(hooks, path) ==
        IF /\ isType(path.node, "CallExpression")
           /\ isType(path.node.callee, "Identifier")
           /\ startsWith(path.node.callee.name, "use")
        THEN Append(hooks, [name |-> path.node.callee.name,
                            arguments |-> Map(serializeArgument, path.node.arguments)])
        ELSE hooks
      hooks == FoldLeft(visit, <<>>, traverseAST(ast))
  IN [context EXCEPT !.hooks = hooks]

(***************************************************************************)
(* ExportAnalyzer                                                          *)
(***************************************************************************)
\* The name the analyzer compares the default export with.
ExpectedDefaultExport == "default: MyComponent"

\* The set of exported names collected by the traversal.
collectExports(ast) ==
  LET addAll(exports, names) == FoldLeft(SetAdd, exports, names)
      declared(decl) == IF isType(decl.id, "Identifier") THEN <<decl.id.name>> ELSE <<>>
      exported(specifier) ==
        IF isType(specifier, "ExportSpecifier")
        THEN IF isType(specifier.exported, "Identifier")
             THEN <<specifier.exported.name>> ELSE <<specifier.exported.value>>
        ELSE <<>>
      named(exports, pathNode) ==
        IF ~isType(pathNode, "ExportNamedDeclaration") THEN exports
        ELSE IF pathNode.declaration.type # "null"
        THEN IF isType(pathNode.declaration, "VariableDeclaration")
             THEN addAll(exports, Flat(Map(declared, pathNode.declaration.declarations)))
             ELSE IF /\ \/ isType(pathNode.declaration, "FunctionDeclaration")
                        \/ isType(pathNode.declaration, "ClassDeclaration")
                     /\ pathNode.declaration.id.type # "null"
             THEN SetAdd(exports, pathNode.declaration.id.name)
             ELSE exports
        ELSE IF Len(pathNode.specifiers) > 0
        THEN addAll(exports, Flat(Map(exported, pathNode.specifiers)))
        ELSE exports
      default(exports, pathNode) ==
        IF ~isType(pathNode, "ExportDefaultDeclaration") THEN exports
        ELSE IF isType(pathNode.declaration, "Identifier")
        THEN SetAdd(exports, "default: " \o pathNode.declaration.name)
        ELSE IF \/ isType(pathNode.declaration, "FunctionDeclaration")
                \/ isType(pathNode.declaration, "ClassDeclaration")
        THEN LET name == IF pathNode.declaration.id.type # "null"
                         THEN pathNode.declaration.id.name ELSE "(anonymous)"
             IN SetAdd(exports, "default: " \o name)
        ELSE SetAdd(exports, "default: (anonymous)")
      visit(exports, path) == default(named(exports, path.node), path.node)
  IN FoldLeft(visit, <<>>, traverseAST(ast))

\* The analyzer reporting 'default' for a default export of any name.
ExportAnalyzerAnyDefault(ast, context) ==
  LET exports == collectExports(ast)
  IN [context EXCEPT !.exportType =
        IF \E i \in 1..Len(exports) : startsWith(exports[i], "default: ")
        THEN "default" ELSE "named"]

\* The analyzer comparing the default export with the name found by
\* ComponentNameAnalyzer instead of the fixed name.
ExportAnalyzerByName(ast, context) ==
  [context EXCEPT !.exportType =
     IF Has(collectExports(ast), "default: " \o context.name)
     THEN "default" ELSE "named"]

ExportAnalyzer(ast, context) ==
  [context EXCEPT !.exportType =
     IF Has(collectExports(ast), ExpectedDefaultExport) THEN "default" ELSE "named"]

(***************************************************************************)
(* JSXElementAnalyzer                                                      *)
(***************************************************************************)
\* String.prototype.trim
WhiteSpace == {" ", "\n", "\t", "\r"}

RECURSIVE trimStart(_)
trimStart(s) ==
  IF Len(s) > 0 /\ SubSeq(s, 1, 1) \in WhiteSpace THEN trimStart(Tail(s)) ELSE s

RECURSIVE trimEnd(_)
trimEnd(s) ==
  IF Len(s) > 0 /\ SubSeq(s, Len(s), Len(s)) \in WhiteSpace
  THEN trimEnd(SubSeq(s, 1, Len(s) - 1)) ELSE s

trim(s) == trimEnd(trimStart(s))

\* Returns <<string>>, or <<>> for null.
extractPropValue(value) ==
  IF value.type = "null" THEN <<>>
  ELSE IF isType(value, "StringLiteral") THEN <<value.value>>
  ELSE IF /\ isType(value, "JSXExpressionContainer")
          /\ isType(value.expression, "StringLiteral")
       THEN <<value.expression.value>>
  ELSE IF /\ isType(value, "JSXExpressionContainer")
          /\ isType(value.expression, "Identifier")
       THEN <<value.expression.name>>
  ELSE <<>>

\* The name recorded for a JSX element.
elementNameOf(element) ==
  IF isType(element.openingElement.name, "JSXIdentifier")
  THEN element.openingElement.name.name ELSE "Unknown"

\* Returns <<childInfo>>, or <<>> for null.
extractChildInfo(child) ==
  IF isType(child, "JSXText")
  THEN LET content == trim(child.value)
       IN IF content # "" THEN <<[type |-> "text", content |-> content]>> ELSE <<>>
  ELSE IF isType(child, "JSXElement")
  THEN <<[type |-> "element", content |-> elementNameOf(child)]>>
  ELSE IF isType(child, "JSXExpressionContainer") /\ isType(child.expression, "Identifier")
  THEN <<[type |-> "expression", content |-> child.expression.name]>>
  ELSE IF isType(child, "JSXFragment")
  THEN <<[type |-> "fragment", content |-> "Fragment"]>>
  ELSE <<>>

\* The JSXElementInfo built for one JSX element.
elementInfoOf(element) ==
  LET elementName == elementNameOf(element)
      addAttr(info, attr) ==
        IF isType(attr, "JSXSpreadAttribute")
        THEN [info EXCEPT !.props =
                Append(@, [name |-> "...", value |-> <<>>, isSpread |-> TRUE])]
        ELSE IF ~isType(attr, "JSXAttribute") THEN info
        ELSE LET propName == IF isType(attr.name, "JSXIdentifier")
                             THEN attr.name.name ELSE "Unknown"
                 propValue == extractPropValue(attr.value)
             IN [info EXCEPT
                   !.props = Append(@, [name |-> propName, value |-> propValue,
                                        isSpread |-> FALSE]),
                   !.attributes = IF matchLower(elementName)
                                  THEN Append(@, [name |-> propName, value |-> propValue])
                                  ELSE @]
      withAttrs == FoldLeft(addAttr,
                            [name |-> elementName, props |-> <<>>, children |-> <<>>,
                             attributes |-> <<>>],
                            element.openingElement.attributes)
  IN [withAttrs EXCEPT !.children = Flat(Map(extractChildInfo, element.children))]

\* A map that keeps the first value set for a key.
MapSetKeepingFirst(elements, info) ==
  IF \E i \in 1..Len(elements) : elements[i].name = info.name
  THEN elements
  ELSE Append(elements, info)

\* Map.prototype.set on a Map kept as a sequence of its values in insertion
\* order (the key of a value is its name).
MapSet(elements, info) ==
  IF \E i \in 1..Len(elements) : elements[i].name = info.name
  THEN LET put(e) == IF e.name = info.name THEN info ELSE e
       IN Map(put, elements)
  ELSE Append(elements, info)

JSXElementAnalyzer(ast, context) ==
  LET visit(elements, path) ==
        IF ~isType(path.node, "JSXElement") THEN elements
        ELSE MapSet(elements, elementInfoOf(path.node))
      elements == FoldLeft(visit, <<>>, traverseAST(ast))
  IN [context EXCEPT !.dependencies = SetProperty(@, "components", elements)]

(***************************************************************************)
(* JavaScript `any` values and JSON                                        *)
(***************************************************************************)
JString(s) == [t |-> "string", v |-> s]
JNumber(n) == [t |-> "number", v |-> n]
\* The number Infinity: the value of a numeric literal too large for a double.
JInfinity == [t |-> "number", infinite |-> TRUE]
\* Number.isFinite(value) of a number.
isFinite(value) == "infinite" \notin DOMAIN value
JBoolean(b) == [t |-> "boolean", v |-> b]
JNull == [t |-> "null"]
JArray(items) == [t |-> "array", v |-> items]
\* An object is the sequence of its own properties [key, value] in the
\* order Object.keys lists them.
JObject(entries) == [t |-> "object", v |-> entries]

\* The test that holds for mappings only.
isMapping(value) == value.t = "object"

\* typeof value === 'object'
typeofObject(value) == value.t \in {"object", "array", "null"}

Digits == <<"0", "1", "2", "3", "4", "5", "6", "7", "8", "9">>

isDigit(c) == \E d \in 1..10 : Digits[d] = c

digitValue(c) == (CHOOSE d \in 1..10 : Digits[d] = c) - 1

\* The number a string of digits denotes.
RECURSIVE digitsValue(_)
digitsValue(s) ==
  IF Len(s) = 0 THEN 0
  ELSE 10 * digitsValue(SubSeq(s, 1, Len(s) - 1)) + digitValue(SubSeq(s, Len(s), Len(s)))

\* A property key that is a canonical array index ("0", "7", "12"): such keys
\* are listed first, in ascending numeric order, by every object.
isIndexKey(key) ==
  /\ Len(key) >= 1
  /\ \A i \in 1..Len(key) : isDigit(SubSeq(key, i, i))
  /\ (Len(key) > 1 => SubSeq(key, 1, 1) # "0")

\* obj[key] = value
ObjectSet(entries, key, value) ==
  IF \E i \in 1..Len(entries) : entries[i].key = key
  THEN LET put(e) == IF e.key = key THEN [key |-> key, value |-> value] ELSE e
       IN Map(put, entries)
  ELSE IF isIndexKey(key)
  THEN LET before(e) == isIndexKey(e.key) /\ digitsValue(e.key) < digitsValue(key)
           after(e) == ~before(e)
       IN Filter(before, entries) \o <<[key |-> key, value |-> value]>>
            \o Filter(after, entries)
  ELSE Append(entries, [key |-> key, value |-> value])

\* Object.assign(target, source) on the entries of target.
ObjectAssign(entries, source) ==
  LET put(acc, e) == ObjectSet(acc, e.key, e.value)
      entry(i) == [key |-> toString(i - 1), value |-> source.v[i]]
  IN IF source.t = "object" THEN FoldLeft(put, entries, source.v)
     ELSE IF source.t = "array"
     THEN FoldLeft(put, entries, Map(entry, Range(Len(source.v))))
     ELSE entries

\* The text of a string between quotes, with no character escaped.
quoteWithoutEscapes(s) == "\"" \o s \o "\""

\* The JSON text of a string: quoted, with the characters JSON escapes.
quote(s) ==
  LET esc(c) == CASE c = "\"" -> "\\\""
                  [] c = "\\" -> "\\\\"
                  [] c = "\n" -> "\\n"
                  [] c = "\t" -> "\\t"
                  [] c = "\r" -> "\\r"
                  [] OTHER -> c
      cat(acc, i) == acc \o esc(SubSeq(s, i, i))
  IN "\"" \o FoldLeft(cat, "", Range(Len(s))) \o "\""

\* JSON.stringify(value, null, 2): `indent` is the current indentation.
RECURSIVE stringify(_, _)
stringify(value, indent) ==
  LET inner == indent \o "  "
      item(x) == inner \o stringify(x, inner)
      member(e) == inner \o quote(e.key) \o ": " \o stringify(e.value, inner)
  IN CASE value.t = "string" -> quote(value.v)
       [] value.t = "number" -> IF isFinite(value) THEN toString(value.v) ELSE "null"
       [] value.t = "boolean" -> IF value.v THEN "true" ELSE "false"
       [] value.t = "null" -> "null"
       [] value.t = "array" ->
            IF Len(value.v) = 0 THEN "[]"
            ELSE "[\n" \o join(Map(item, value.v), ",\n") \o "\n" \o indent \o "]"
       [] value.t = "object" ->
            IF Len(value.v) = 0 THEN "{}"
            ELSE "{\n" \o join(Map(member, value.v), ",\n") \o "\n" \o indent \o "}"

JSONstringify(value) == stringify(value, "")

\* JSON.stringify(value), without indentation.
RECURSIVE stringifyCompact(_)
stringifyCompact(value) ==
  LET member(e) == quote(e.key) \o ":" \o stringifyCompact(e.value)
  IN CASE value.t = "string" -> quote(value.v)
       [] value.t = "number" -> IF isFinite(value) THEN toString(value.v) ELSE "null"
       [] value.t = "boolean" -> IF value.v THEN "true" ELSE "false"
       [] value.t = "null" -> "null"
       [] value.t = "array" -> "[" \o join(Map(stringifyCompact, value.v), ",") \o "]"
       [] value.t = "object" -> "{" \o join(Map(member, value.v), ",") \o "}"

\* JSON.parse.  A parse step returns [ok |-> FALSE] where JSON.parse throws a
\* SyntaxError, else the value read and the position after it.
ParseFail == [ok |-> FALSE]

ParseOk(value, next) == [ok |-> TRUE, value |-> value, next |-> next]

\* The character at a position, "" past the end of the text.
charAt(s, i) == IF i >= 1 /\ i <= Len(s) THEN SubSeq(s, i, i) ELSE ""

RECURSIVE skipWhiteSpace(_, _)
skipWhiteSpace(s, i) ==
  IF charAt(s, i) \in WhiteSpace THEN skipWhiteSpace(s, i + 1) ELSE i

\* The rest of a string literal: `i` is the position after the opening quote
\* (\uXXXX escapes are not modelled; JSON.stringify emits none for the
\* characters of the model).
RECURSIVE parseStringFrom(_, _, _)
parseStringFrom(s, i, acc) ==
  LET c == charAt(s, i)
      d == charAt(s, i + 1)
  IN IF c = "" \/ c \in {"\n", "\t", "\r"} THEN ParseFail
     ELSE IF c = "\"" THEN ParseOk(acc, i + 1)
     ELSE IF c = "\\"
     THEN CASE d = "\"" -> parseStringFrom(s, i + 2, acc \o "\"")
            [] d = "\\" -> parseStringFrom(s, i + 2, acc \o "\\")
            [] d = "/" -> parseStringFrom(s, i + 2, acc \o "/")
            [] d = "n" -> parseStringFrom(s, i + 2, acc \o "\n")
            [] d = "t" -> parseStringFrom(s, i + 2, acc \o "\t")
            [] d = "r" -> parseStringFrom(s, i + 2, acc \o "\r")
            [] OTHER -> ParseFail
     ELSE parseStringFrom(s, i + 1, acc \o c)

\* The position after the run of digits that starts at `i`.
RECURSIVE digitsEnd(_, _)
digitsEnd(s, i) == IF isDigit(charAt(s, i)) THEN digitsEnd(s, i + 1) ELSE i

RECURSIVE parseValue(_, _)
RECURSIVE parseElements(_, _, _)
RECURSIVE parseMembers(_, _, _)

parseValue(s, i) ==
  LET c == charAt(s, i)
      str == parseStringFrom(s, i + 1, "")
      j == skipWhiteSpace(s, i + 1)
      e == digitsEnd(s, i)
  IN CASE c = "\"" -> IF str.ok THEN ParseOk(JString(str.value), str.next) ELSE ParseFail
       [] c = "[" -> IF charAt(s, j) = "]" THEN ParseOk(JArray(<<>>), j + 1)
                     ELSE parseElements(s, j, <<>>)
       [] c = "{" -> IF charAt(s, j) = "}" THEN ParseOk(JObject(<<>>), j + 1)
                     ELSE parseMembers(s, j, <<>>)
       [] c = "t" -> IF startsWith(SubSeq(s, i, Len(s)), "true")
                     THEN ParseOk(JBoolean(TRUE), i + 4) ELSE ParseFail
       [] c = "f" -> IF startsWith(SubSeq(s, i, Len(s)), "false")
                     THEN ParseOk(JBoolean(FALSE), i + 5) ELSE ParseFail
       [] c = "n" -> IF startsWith(SubSeq(s, i, Len(s)), "null")
                     THEN ParseOk(JNull, i + 4) ELSE ParseFail
       [] isDigit(c) -> IF c = "0" /\ e > i + 1 THEN ParseFail
                        ELSE ParseOk(JNumber(digitsValue(SubSeq(s, i, e - 1))), e)
       [] OTHER -> ParseFail

parseElements(s, i, acc) ==
  LET r == parseValue(s, i)
      k == skipWhiteSpace(s, r.next)
  IN IF ~r.ok THEN ParseFail
     ELSE IF charAt(s, k) = ","
     THEN parseElements(s, skipWhiteSpace(s, k + 1), Append(acc, r.value))
     ELSE IF charAt(s, k) = "]" THEN ParseOk(JArray(Append(acc, r.value)), k + 1)
     ELSE ParseFail

parseMembers(s, i, acc) ==
  LET key == parseStringFrom(s, i + 1, "")
      colon == skipWhiteSpace(s, key.next)
      r == parseValue(s, skipWhiteSpace(s, colon + 1))
      k == skipWhiteSpace(s, r.next)
      entries == ObjectSet(acc, key.value, r.value)
  IN IF charAt(s, i) # "\"" THEN ParseFail
     ELSE IF ~key.ok THEN ParseFail
     ELSE IF charAt(s, colon) # ":" THEN ParseFail
     ELSE IF ~r.ok THEN ParseFail
     ELSE IF charAt(s, k) = "," THEN parseMembers(s, skipWhiteSpace(s, k + 1), entries)
     ELSE IF charAt(s, k) = "}" THEN ParseOk(JObject(entries), k + 1)
     ELSE ParseFail

\* JSON.parse(text): [ok |-> FALSE] where it throws.
JSONparse(text) ==
  LET whole(r) == IF r.ok /\ skipWhiteSpace(text, r.next) = Len(text) + 1
                  THEN [ok |-> TRUE, value |-> r.value]
                  ELSE ParseFail
  IN whole(parseValue(text, skipWhiteSpace(text, 1)))

(***************************************************************************)
(* CVAAnalyzer                                                             *)
(***************************************************************************)
\* The test accepting a call of any identifier.
isCallOfIdentifier(node) ==
  /\ isType(node, "CallExpression")
  /\ isType(node.callee, "Identifier")

isCvaCall(node) ==
  /\ isType(node, "CallExpression")
  /\ isType(node.callee, "Identifier")
  /\ node.callee.name = "cva"

\* The lookup that finds a property only at the head of the object.
findPropertyAtHead(obj, name) ==
  IF ~isType(obj, "ObjectExpression") THEN <<>>
  ELSE IF /\ Len(obj.properties) > 0
          /\ isType(obj.properties[1], "ObjectProperty")
          /\ isType(obj.properties[1].key, "Identifier")
          /\ obj.properties[1].key.name = name
  THEN <<obj.properties[1]>> ELSE <<>>

\* Returns <<property>>, or <<>> for undefined.
findProperty(obj, name) ==
  IF ~isType(obj, "ObjectExpression") THEN <<>>
  ELSE LET named(prop) == /\ isType(prop, "ObjectProperty")
                          /\ isType(prop.key, "Identifier")
                          /\ prop.key.name = name
           found == Filter(named, obj.properties)
       IN IF found = <<>> THEN <<>> ELSE <<found[1]>>

RECURSIVE extractValue(_)
RECURSIVE extractCallExpression(_)
RECURSIVE extractObject(_)
RECURSIVE extractArray(_)

extractValue(node) ==
  LET raw(q) == q.value.raw
  IN CASE node.type = "null" -> JString("")
       [] isType(node, "StringLiteral") -> JString(node.value)
       [] isType(node, "TemplateLiteral") -> JString(join(Map(raw, node.quasis), ""))
       [] isType(node, "ArrayExpression") -> extractArray(node)
       [] isType(node, "ObjectExpression") -> extractObject(node)
       [] isType(node, "Identifier") -> JString(node.name)
       [] isType(node, "NumericLiteral") ->
            IF "value" \in DOMAIN node THEN JNumber(node.value) ELSE JInfinity
       [] isType(node, "BooleanLiteral") -> JBoolean(node.value)
       [] isType(node, "NullLiteral") -> JNull
       [] isType(node, "CallExpression") -> extractCallExpression(node)
       [] OTHER -> JString("")

extractCallExpression(node) ==
  IF ~isType(node, "CallExpression") THEN JNull
  ELSE JObject(<<[key |-> "type", value |-> JString("call")],
                 [key |-> "callee", value |-> extractValue(node.callee)],
                 [key |-> "arguments",
                  value |-> JArray(Map(extractValue, node.arguments))]>>)

extractObject(node) ==
  IF ~isType(node, "ObjectExpression") THEN JObject(<<>>)
  ELSE LET add(result, prop) ==
             IF isType(prop, "ObjectProperty") /\ isType(prop.key, "Identifier")
             THEN ObjectSet(result, prop.key.name, extractValue(prop.value))
             ELSE IF isType(prop, "ObjectProperty") /\ isType(prop.key, "StringLiteral")
             THEN ObjectSet(result, prop.key.value, extractValue(prop.value))
             ELSE IF isType(prop, "SpreadElement")
             THEN LET spreadValue == extractValue(prop.argument)
                  IN IF typeofObject(spreadValue)
                     THEN ObjectAssign(result, spreadValue) ELSE result
             ELSE result
       IN JObject(FoldLeft(add, <<>>, node.properties))

extractArray(node) ==
  IF ~isType(node, "ArrayExpression") THEN JArray(<<>>)
  ELSE LET element(el) == IF el.type = "null" THEN JNull ELSE extractValue(el)
       IN JArray(Map(element, node.elements))

parseCvaConfig(node) ==
  IF ~isType(node, "CallExpression") \/ Len(node.arguments) = 0
  THEN JObject(<<[key |-> "base", value |-> JString("")],
                 [key |-> "variants", value |-> JObject(<<>>)],
                 [key |-> "defaultVariants", value |-> JObject(<<>>)],
                 [key |-> "compoundVariants", value |-> JArray(<<>>)]>>)
  ELSE LET configObj == node.arguments[2]
           hasConfig == Len(node.arguments) > 1 /\ isType(node.arguments[2], "ObjectExpression")
           variantsProp == findProperty(configObj, "variants")
           defaultVariantsProp == findProperty(configObj, "defaultVariants")
           compoundVariantsProp == findProperty(configObj, "compoundVariants")
           variants ==
             IF /\ hasConfig /\ variantsProp # <<>>
                /\ isType(variantsProp[1].value, "ObjectExpression")
             THEN extractObject(variantsProp[1].value) ELSE JObject(<<>>)
           defaultVariants ==
             IF /\ hasConfig /\ defaultVariantsProp # <<>>
                /\ isType(defaultVariantsProp[1].value, "ObjectExpression")
             THEN extractObject(defaultVariantsProp[1].value) ELSE JObject(<<>>)
           compoundVariants ==
             IF /\ hasConfig /\ compoundVariantsProp # <<>>
                /\ isType(compoundVariantsProp[1].value, "ArrayExpression")
             THEN extractArray(compoundVariantsProp[1].value) ELSE JArray(<<>>)
       IN JObject(<<[key |-> "base", value |-> extractValue(node.arguments[1])],
                    [key |-> "variants", value |-> variants],
                    [key |-> "defaultVariants", value |-> defaultVariants],
                    [key |-> "compoundVariants", value |-> compoundVariants]>>)

CVAAnalyzer(ast, context) ==
  LET visit(cvaConfigs, path) ==
        IF /\ isCvaCall(path.node)
           /\ isType(path.parentNode, "VariableDeclarator")
           /\ isType(path.parentNode.id, "Identifier")
        THEN Append(cvaConfigs,
                    [variableName |-> path.parentNode.id.name,
                     configObject |-> JSONstringify(parseCvaConfig(path.node))])
        ELSE cvaConfigs
      cvaConfigs == FoldLeft(visit, <<>>, traverseAST(ast))
  IN [context EXCEPT !.cvaConfigs = cvaConfigs]

(***************************************************************************)
(* ClassNamesAnalyzer                                                      *)
(***************************************************************************)
ClassNameUtilities == <<"cn", "clsx", "classnames", "cx">>

\* node.loc ? { line: node.loc.start.line, column: node.loc.start.column }
\*          : { line: 0, column: 0 }
locationOf(node) ==
  IF "loc" \in DOMAIN node
  THEN [line |-> node.loc.start.line, column |-> node.loc.start.column]
  ELSE [line |-> 0, column |-> 0]

\* First pass: the imported utilities (local name -> source), and the
\* hasClassNames / importSource it leaves in context.classNamesUsage.
collectImportedUtils(ast) ==
  LET visit(acc, path) ==
        LET source == path.node.source.value
            ofSpec(a, spec) ==
              IF isType(spec, "ImportSpecifier")
              THEN LET importedName == IF isType(spec.imported, "Identifier")
                                       THEN spec.imported.name ELSE ""
                       localName == spec.local.name
                   IN IF Has(ClassNameUtilities, importedName)
                      THEN [importedUtils |->
                              ObjectSet(a.importedUtils, localName, source),
                            hasClassNames |-> TRUE,
                            importSource |-> source]
                      ELSE a
              ELSE a
        IN IF isType(path.node, "ImportDeclaration")
           THEN FoldLeft(ofSpec, acc, path.node.specifiers)
           ELSE acc
  IN FoldLeft(visit,
              [importedUtils |-> <<>>, hasClassNames |-> FALSE, importSource |-> ""],
              traverseAST(ast))

\* The typed record of one argument of a utility call.
extractArg(arg) ==
  IF isType(arg, "StringLiteral") THEN [type |-> "string", value |-> JString(arg.value)]
  ELSE IF isType(arg, "TemplateLiteral")
  THEN LET raw(q) == q.value.raw
       IN [type |-> "string", value |-> JString(join(Map(raw, arg.quasis), ""))]
  ELSE IF isType(arg, "ObjectExpression")
  THEN LET add(obj, prop) ==
             IF isType(prop, "ObjectProperty") /\ isType(prop.key, "Identifier")
             THEN ObjectSet(obj, prop.key.name,
                            IF isType(prop.value, "BooleanLiteral")
                            THEN JBoolean(prop.value.value)
                            ELSE IF isType(prop.value, "StringLiteral")
                            THEN JString(prop.value.value)
                            ELSE JBoolean(TRUE))
             ELSE obj
       IN [type |-> "object", value |-> JObject(FoldLeft(add, <<>>, arg.properties))]
  ELSE IF isType(arg, "ArrayExpression")
  THEN LET name(el) == IF isType(el, "StringLiteral") THEN el.value
                       ELSE IF isType(el, "Identifier") THEN el.name
                       ELSE ""
           named(el) == name(el) # ""
       IN [type |-> "array",
           value |-> JArray(Map(JString, Map(name, Filter(named, arg.elements))))]
  ELSE IF isType(arg, "Identifier") THEN [type |-> "identifier", value |-> JString(arg.name)]
  ELSE IF isType(arg, "ConditionalExpression")
  THEN LET test == IF isType(arg.test, "BinaryExpression")
                   THEN (IF isType(arg.test.left, "Identifier")
                         THEN arg.test.left.name ELSE "")
                        \o " " \o arg.test.operator \o " "
                        \o (IF isType(arg.test.right, "NumericLiteral")
                            THEN toString(arg.test.right.value) ELSE "")
                   ELSE IF isType(arg.test, "Identifier") THEN arg.test.name
                   ELSE ""
           branch(n) == IF isType(n, "StringLiteral") THEN n.value
                        ELSE IF isType(n, "Identifier") THEN n.name
                        ELSE ""
       IN [type |-> "conditional",
           value |-> JObject(<<[key |-> "condition", value |-> JString(test)],
                               [key |-> "trueValue", value |-> JString(branch(arg.consequent))],
                               [key |-> "falseValue", value |-> JString(branch(arg.alternate))]>>)]
  ELSE [type |-> "unknown", value |-> JString("")]

extractArgs(callExpr) == Map(extractArg, callExpr.arguments)

\* The value of a property of an object value.
ObjectGet(obj, key) ==
  (CHOOSE e \in {obj.v[i] : i \in 1..Len(obj.v)} : e.key = key).value

\* Returns the usages with the call's usage pushed, if the callee is a
\* className utility.
processClassNameCall(usage, importedUtils, callExpr, calleeName, location) ==
  LET imported == \E i \in 1..Len(importedUtils) : importedUtils[i].key = calleeName
  IN IF Has(ClassNameUtilities, calleeName) \/ imported
     THEN LET typeForContext == IF imported THEN "cn"
                                ELSE IF calleeName = "cn" THEN "cn"
                                ELSE IF calleeName = "clsx" THEN "clsx"
                                ELSE "classnames"
          IN Append(usage, [type |-> typeForContext,
                            arguments |-> extractArgs(callExpr),
                            location |-> location])
     ELSE usage

ClassNamesAnalyzer(ast, context) ==
  LET \* CallExpression(path)
      callVisitor(usage, importedUtils, node) ==
        IF isType(node, "CallExpression") /\ isType(node.callee, "Identifier")
        THEN processClassNameCall(usage, importedUtils, node, node.callee.name,
                                  locationOf(node))
        ELSE usage
      \* JSXAttribute(path)
      attributeVisitor(usage, importedUtils, node) ==
        IF /\ isType(node, "JSXAttribute")
           /\ isType(node.name, "JSXIdentifier")
           /\ node.name.name = "className"
           /\ isType(node.value, "JSXExpressionContainer")
           /\ isType(node.value.expression, "CallExpression")
           /\ isType(node.value.expression.callee, "Identifier")
        THEN processClassNameCall(usage, importedUtils, node.value.expression,
                                  node.value.expression.callee.name, locationOf(node))
        ELSE usage
      flatten(arg) ==
        IF arg.type = "conditional"
        THEN ObjectGet(arg.value, "condition").v \o " ? \""
               \o ObjectGet(arg.value, "trueValue").v \o "\" : \""
               \o ObjectGet(arg.value, "falseValue").v \o "\""
        ELSE IF arg.value.t = "string" THEN arg.value.v
        ELSE stringifyCompact(arg.value)
      legacy(u) == [line |-> u.location.line, column |-> u.location.column,
                    arguments |-> Map(flatten, u.arguments)]
      \* Update context with new structure, and the legacy view of it
      store(first, usage, hasClassNames) ==
        IF hasClassNames
        THEN [context EXCEPT
                !.classNamesUsage = [hasClassNames |-> hasClassNames,
                                     importSource |-> first.importSource,
                                     usage |-> usage],
                !.classNames = [importSource |-> <<first.importSource>>,
                                importName |-> IF Len(usage) > 0 THEN <<usage[1].type>>
                                               ELSE <<>>,
                                usages |-> Map(legacy, usage)]]
        ELSE [context EXCEPT
                !.classNamesUsage = [hasClassNames |-> hasClassNames,
                                     importSource |-> first.importSource,
                                     usage |-> usage]]
      found(first, usage) == store(first, usage, first.hasClassNames \/ Len(usage) > 0)
      \* Second pass: find usages
      secondPass(first) ==
        LET visit(usage, path) ==
              attributeVisitor(callVisitor(usage, first.importedUtils, path.node),
                               first.importedUtils, path.node)
        IN found(first, FoldLeft(visit, <<>>, traverseAST(ast)))
  IN secondPass(collectImportedUtils(ast))

(***************************************************************************)
(* StylingLibraryAnalyzer                                                  *)
(***************************************************************************)
TAILWIND_CLASS_PATTERNS ==
  <<"text-", "bg-", "p-", "m-", "flex-", "grid-", "w-", "h-", "rounded-",
    "border-", "shadow-", "transition-", "hover:", "focus:", "active:",
    "disabled:", "dark:", "light:">>

\* The keys of the scores map, in insertion (iteration) order.
StylingLibraries == <<"tailwind", "styled-components", "emotion", "cva", "unknown">>

\* The scores map a call of analyze starts from.
newScores ==
  [lib \in {StylingLibraries[i] : i \in 1..Len(StylingLibraries)} |->
     [score |-> 0, indicators |-> <<>>]]

\* current.score += score; current.indicators.push(indicator)
addScore(scores, lib, score, indicator) ==
  [scores EXCEPT ![lib] = [score |-> @.score + score,
                           indicators |-> Append(@.indicators, indicator)]]

hasTailwindPattern(str) ==
  \E i \in 1..Len(TAILWIND_CLASS_PATTERNS) : includes(str, TAILWIND_CLASS_PATTERNS[i])

RECURSIVE hasTailwindClasses(_)
hasTailwindClasses(obj) ==
  CASE obj.t = "string" -> hasTailwindPattern(obj.v)
    [] obj.t = "array" -> \E i \in 1..Len(obj.v) : hasTailwindClasses(obj.v[i])
    [] obj.t = "object" -> \E i \in 1..Len(obj.v) : hasTailwindClasses(obj.v[i].value)
    [] OTHER -> FALSE

\* The seed step with the cva score added once per configuration.
seedPerCvaConfig(scores, context) ==
  LET perConfig(sc, config) ==
        LET named == addScore(sc, "cva", 100, "CVA config: " \o config.variableName)
        IN IF hasTailwindClasses(JSONparse(config.configObject).value)
           THEN addScore(named, "tailwind", 50,
                         "Found Tailwind classes in CVA config: " \o config.variableName)
           ELSE named
  IN FoldLeft(perConfig, scores, context.cvaConfigs)

\* Check for CVA configs first
seedFromCvaConfigs(scores, context) ==
  IF Len(context.cvaConfigs) > 0
  THEN LET found == addScore(scores, "cva", 100,
                             "Found " \o toString(Len(context.cvaConfigs))
                               \o " CVA configuration(s)")
           perConfig(sc, config) ==
             LET named == [sc EXCEPT !["cva"].indicators =
                             Append(@, "CVA config: " \o config.variableName)]
                 hitIn(parsed) == IF parsed.ok THEN hasTailwindClasses(parsed.value)
                                  ELSE hasTailwindPattern(config.configObject)
             IN IF hitIn(JSONparse(config.configObject))
                THEN addScore(named, "tailwind", 50,
                              "Found Tailwind classes in CVA config: "
                                \o config.variableName)
                ELSE named
       IN FoldLeft(perConfig, found, context.cvaConfigs)
  ELSE scores

ImportScores ==
  <<[pattern |-> "tailwind", lib |-> "tailwind", score |-> 30],
    [pattern |-> "clsx", lib |-> "tailwind", score |-> 20],
    [pattern |-> "tailwind-merge", lib |-> "tailwind", score |-> 20],
    [pattern |-> "styled-components", lib |-> "styled-components", score |-> 50],
    [pattern |-> "@emotion/react", lib |-> "emotion", score |-> 50]>>

analyzeImports(node, scores) ==
  IF ~isType(node, "ImportDeclaration") THEN scores
  ELSE LET source == node.source.value
           byPattern(sc, entry) ==
             IF includes(source, entry.pattern)
             THEN addScore(sc, entry.lib, entry.score, "Imports from " \o source)
             ELSE sc
           matched == FoldLeft(byPattern, scores, ImportScores)
       IN IF endsWith(source, ".css") /\ ~endsWith(source, ".module.css")
          THEN addScore(matched, "tailwind", 15, "Imports CSS file: " \o source)
          ELSE matched

\* analyzeClassNames with the score of the earlier version of the analyzer.
analyzeClassNamesByTen(node, scores) ==
  IF \/ ~isType(node, "JSXAttribute")
     \/ ~isType(node.name, "JSXIdentifier")
     \/ node.name.name # "className"
     \/ ~isType(node.value, "StringLiteral")
  THEN scores
  ELSE LET className == node.value.value
       IN IF hasTailwindPattern(className)
          THEN addScore(scores, "tailwind", 10, "Uses Tailwind-like class: " \o className)
          ELSE scores

analyzeClassNames(node, scores) ==
  IF \/ ~isType(node, "JSXAttribute")
     \/ ~isType(node.name, "JSXIdentifier")
     \/ node.name.name # "className"
     \/ ~isType(node.value, "StringLiteral")
  THEN scores
  ELSE LET className == node.value.value
       IN IF hasTailwindPattern(className)
          THEN addScore(scores, "tailwind", 25, "Uses Tailwind-like class: " \o className)
          ELSE scores

analyzeStyledComponents(node, scores) ==
  IF ~isType(node, "TaggedTemplateExpression") \/ ~isType(node.tag, "Identifier")
  THEN scores
  ELSE LET tagName == node.tag.name
       IN IF tagName = "styled" \/ endsWith(tagName, "Styled")
          THEN addScore(scores, "styled-components", 30,
                        "Uses styled-components: " \o tagName)
          ELSE scores

analyzeEmotion(node, scores) ==
  IF \/ ~isType(node, "CallExpression")
     \/ ~isType(node.callee, "Identifier")
     \/ node.callee.name # "css"
  THEN scores
  ELSE addScore(scores, "emotion", 30, "Uses Emotion css function")

Min(a, b) == IF a < b THEN a ELSE b

Max(a, b) == IF a > b THEN a ELSE b

\* calculateConfidence with a secondary library counted as strong from a
\* score of 50.
calculateConfidenceFromFifty(scores) ==
  LET step(acc, type) ==
        LET score == scores[type].score
        IN IF score > acc.maxScore
           THEN [maxScore |-> score, detectedType |-> type,
                 secondaryScore |-> acc.maxScore, secondaryType |-> <<acc.detectedType>>]
           ELSE IF score > acc.secondaryScore
           THEN [acc EXCEPT !.secondaryScore = score, !.secondaryType = <<type>>]
           ELSE acc
      found == FoldLeft(step,
                        [maxScore |-> 0, detectedType |-> "unknown",
                         secondaryScore |-> 0, secondaryType |-> <<>>],
                        StylingLibraries)
      indicatorCount == Len(scores[found.detectedType].indicators)
      boosted == Min(100, found.maxScore + indicatorCount * 15)
      strongSecondary == found.secondaryType # <<>> /\ found.secondaryScore >= 50
  IN IF found.detectedType = "unknown"
     THEN [type |-> "unknown", confidence |-> 0, scores |-> scores]
     ELSE IF strongSecondary
     THEN [type |-> found.detectedType,
           confidence |-> Max(60, Min(boosted, 80)),
           scores |-> [scores EXCEPT ![found.detectedType] =
                         [score |-> found.maxScore,
                          indicators |-> Append(@.indicators,
                            "Also using " \o found.secondaryType[1] \o " (score: "
                              \o toString(found.secondaryScore) \o ")")]]]
     ELSE [type |-> found.detectedType, confidence |-> boosted, scores |-> scores]

\* calculateConfidence with a later category of an equal positive score
\* replacing the earlier one.
calculateConfidenceLastWins(scores) ==
  LET step(acc, type) ==
        LET score == scores[type].score
        IN IF score > 0 /\ score >= acc.maxScore
           THEN [maxScore |-> score, detectedType |-> type,
                 secondaryScore |-> acc.maxScore, secondaryType |-> <<acc.detectedType>>]
           ELSE IF score > acc.secondaryScore
           THEN [acc EXCEPT !.secondaryScore = score, !.secondaryType = <<type>>]
           ELSE acc
      found == FoldLeft(step,
                        [maxScore |-> 0, detectedType |-> "unknown",
                         secondaryScore |-> 0, secondaryType |-> <<>>],
                        StylingLibraries)
      indicatorCount == Len(scores[found.detectedType].indicators)
      boosted == Min(100, found.maxScore + indicatorCount * 15)
      strongSecondary == found.secondaryType # <<>> /\ found.secondaryScore > 50
  IN IF found.detectedType = "unknown"
     THEN [type |-> "unknown", confidence |-> 0, scores |-> scores]
     ELSE IF strongSecondary
     THEN [type |-> found.detectedType,
           confidence |-> Max(60, Min(boosted, 80)),
           scores |-> [scores EXCEPT ![found.detectedType] =
                         [score |-> found.maxScore,
                          indicators |-> Append(@.indicators,
                            "Also using " \o found.secondaryType[1] \o " (score: "
                              \o toString(found.secondaryScore) \o ")")]]]
     ELSE [type |-> found.detectedType, confidence |-> boosted, scores |-> scores]

\* Returns the detected type, the confidence and the scores map, to whose
\* winning entry the runner-up indicator may have been pushed.
\* calculateConfidence with a first pass that, on a new highest score, leaves
\* the runner-up as it was instead of demoting the previous highest to it.
calculateConfidenceNoDemotion(scores) ==
  LET step(acc, type) ==
        LET score == scores[type].score
        IN IF score > acc.maxScore
           THEN [acc EXCEPT !.maxScore = score, !.detectedType = type]
           ELSE IF score > acc.secondaryScore
           THEN [acc EXCEPT !.secondaryScore = score, !.secondaryType = <<type>>]
           ELSE acc
      found == FoldLeft(step,
                        [maxScore |-> 0, detectedType |-> "unknown",
                         secondaryScore |-> 0, secondaryType |-> <<>>],
                        StylingLibraries)
      indicatorCount == Len(scores[found.detectedType].indicators)
      boosted == Min(100, found.maxScore + indicatorCount * 15)
      strongSecondary == found.secondaryType # <<>> /\ found.secondaryScore > 50
  IN IF found.detectedType = "unknown"
     THEN [type |-> "unknown", confidence |-> 0, scores |-> scores]
     ELSE IF strongSecondary
     THEN [type |-> found.detectedType,
           confidence |-> Max(60, Min(boosted, 80)),
           scores |-> [scores EXCEPT ![found.detectedType] =
                         [score |-> found.maxScore,
                          indicators |-> Append(@.indicators,
                            "Also using " \o found.secondaryType[1] \o " (score: "
                              \o toString(found.secondaryScore) \o ")")]]]
     ELSE [type |-> found.detectedType, confidence |-> boosted, scores |-> scores]

calculateConfidence(scores) ==
  LET step(acc, type) ==
        LET score == scores[type].score
        IN IF score > acc.maxScore
           THEN [maxScore |-> score, detectedType |-> type,
                 secondaryScore |-> acc.maxScore, secondaryType |-> <<acc.detectedType>>]
           ELSE IF score > acc.secondaryScore
           THEN [acc EXCEPT !.secondaryScore = score, !.secondaryType = <<type>>]
           ELSE acc
      found == FoldLeft(step,
                        [maxScore |-> 0, detectedType |-> "unknown",
                         secondaryScore |-> 0, secondaryType |-> <<>>],
                        StylingLibraries)
      indicatorCount == Len(scores[found.detectedType].indicators)
      boosted == Min(100, found.maxScore + indicatorCount * 15)
      strongSecondary == found.secondaryType # <<>> /\ found.secondaryScore > 50
  IN IF found.detectedType = "unknown"
     THEN [type |-> "unknown", confidence |-> 0, scores |-> scores]
     ELSE IF strongSecondary
     THEN [type |-> found.detectedType,
           confidence |-> Max(60, Min(boosted, 80)),
           scores |-> [scores EXCEPT ![found.detectedType] =
                         [score |-> found.maxScore,
                          indicators |-> Append(@.indicators,
                            "Also using " \o found.secondaryType[1] \o " (score: "
                              \o toString(found.secondaryScore) \o ")")]]]
     ELSE [type |-> found.detectedType, confidence |-> boosted, scores |-> scores]

\* The scores map after the seed step and the traversal.
collectScores(ast, context) ==
  LET visit(scores, path) ==
        analyzeEmotion(path.node,
          analyzeStyledComponents(path.node,
            analyzeClassNames(path.node,
              analyzeImports(path.node, scores))))
  IN FoldLeft(visit, seedFromCvaConfigs(newScores, context), traverseAST(ast))

\* The result of StylingLibraryAnalyzer.analyze: the scores map it leaves
\* and the stylingLibrary it stores.
stylingResult(ast, context) == calculateConfidence(collectScores(ast, context))

\* analyze storing a placeholder indicator when the winner has none.
StylingLibraryAnalyzerWithPlaceholder(ast, context) ==
  LET store(result) ==
        [context EXCEPT !.stylingLibrary =
           [type |-> result.type,
            confidence |-> result.confidence,
            indicators |->
              IF Len(result.scores[result.type].indicators) > 0
              THEN result.scores[result.type].indicators
              ELSE <<"No clear styling indicators found">>]]
  IN store(stylingResult(ast, context))

StylingLibraryAnalyzer(ast, context) ==
  LET store(result) ==
        [context EXCEPT !.stylingLibrary =
           [type |-> result.type,
            confidence |-> result.confidence,
            indicators |-> result.scores[result.type].indicators]]
  IN store(stylingResult(ast, context))

(***************************************************************************)
(* Source files.  A tree is the Program node of a module; the statements   *)
(* below are the top-level statements the analyzed modules are built from. *)
(***************************************************************************)
\* A node with the source location the parser records for it.
at(node, line, column) ==
  [loc |-> [start |-> [line |-> line, column |-> column]]] @@ node

\* import { cn } from "clsx";
ImportCn ==
  importDeclaration(<<importSpecifier(identifier("cn"), identifier("cn"))>>,
                    stringLiteral("clsx"))

\* const buttonVariants = cva("px-4 py-2", {
\*   variants: { intent: { primary: "bg-blue-500", secondary: "bg-gray-200" } },
\*   defaultVariants: { intent: "primary" } });
ButtonVariants ==
  variableDeclaration(<<variableDeclarator(identifier("buttonVariants"),
    at(callExpression(identifier("cva"),
      <<stringLiteral("px-4 py-2"),
        objectExpression(<<
          objectProperty(identifier("variants"),
            objectExpression(<<
              objectProperty(identifier("intent"),
                objectExpression(<<
                  objectProperty(identifier("primary"), stringLiteral("bg-blue-500")),
                  objectProperty(identifier("secondary"), stringLiteral("bg-gray-200"))>>))>>)),
          objectProperty(identifier("defaultVariants"),
            objectExpression(<<
              objectProperty(identifier("intent"), stringLiteral("primary"))>>))>>)>>),
      1, 23))>>)

\* export default function Widget(props) {
\*   const {title} = props; return <div className="p-2">{title}</div>; }
Widget ==
  exportDefaultDeclaration(
    functionDeclaration(identifier("Widget"), <<identifier("props")>>,
      blockStatement(<<
        variableDeclaration(<<variableDeclarator(
          objectPattern(<<objectProperty(identifier("title"), identifier("title"))>>),
          identifier("props"))>>),
        returnStatement(
          jsxElement(jsxIdentifier("div"),
            <<jsxAttribute(jsxIdentifier("className"), stringLiteral("p-2"))>>,
            <<jsxExpressionContainer(identifier("title"))>>))>>)))

\* export default MyComponent;
ExportDefaultMyComponent == exportDefaultDeclaration(identifier("MyComponent"))

\* export default Card;
ExportDefaultCard == exportDefaultDeclaration(identifier("Card"))

\* export function MyComponent(props) {
\*   const [count, setCount] = useState(0);
\*   useEffect(() => { log(count); }, [count]);
\*   return <h1 className="text-2xl font-bold">{props.title}</h1>; }
MyComponentFunction ==
  exportNamedDeclaration(
    functionDeclaration(identifier("MyComponent"), <<identifier("props")>>,
      blockStatement(<<
        variableDeclaration(<<variableDeclarator(
          arrayPattern(<<identifier("count"), identifier("setCount")>>),
          at(callExpression(identifier("useState"), <<numericLiteral(0)>>), 2, 28))>>),
        expressionStatement(
          at(callExpression(identifier("useEffect"),
            <<arrowFunctionExpression(<<>>,
                blockStatement(<<expressionStatement(
                  at(callExpression(identifier("log"), <<identifier("count")>>), 3, 20))>>)),
              arrayExpression(<<identifier("count")>>)>>), 3, 2)),
        returnStatement(
          jsxElement(jsxIdentifier("h1"),
            <<jsxAttribute(jsxIdentifier("className"), stringLiteral("text-2xl font-bold"))>>,
            <<jsxExpressionContainer(
                memberExpression(identifier("props"), identifier("title")))>>))>>)),
    <<>>)

\* export const Card = ({ title, size }) =>
\*   <Row label={title} className={cn("row", size)} />;
CardArrow ==
  exportNamedDeclaration(
    variableDeclaration(<<variableDeclarator(identifier("Card"),
      arrowFunctionExpression(
        <<objectPattern(<<objectProperty(identifier("title"), identifier("title")),
                          objectProperty(identifier("size"), identifier("size"))>>)>>,
        jsxElement(jsxIdentifier("Row"),
          <<jsxAttribute(jsxIdentifier("label"),
                         jsxExpressionContainer(identifier("title"))),
            at(jsxAttribute(jsxIdentifier("className"),
                 jsxExpressionContainer(
                   at(callExpression(identifier("cn"),
                        <<stringLiteral("row"), identifier("size")>>), 2, 32))), 2, 21)>>,
          <<>>)))>>),
    <<>>)

\* const Card = memo(Base);
CardMemo ==
  variableDeclaration(<<variableDeclarator(identifier("Card"),
    at(callExpression(identifier("memo"), <<identifier("Base")>>), 1, 13))>>)

\* const MyComponent = React.forwardRef(function (props, ref) {
\*   return props.children; });
MyComponentForwardRef ==
  variableDeclaration(<<variableDeclarator(identifier("MyComponent"),
    at(callExpression(memberExpression(identifier("React"), identifier("forwardRef")),
      <<functionExpression(NullNode, <<identifier("props"), identifier("ref")>>,
          blockStatement(<<returnStatement(
            memberExpression(identifier("props"), identifier("children")))>>))>>),
      1, 20))>>)

\* export default class Panel extends React.Component {}
PanelClassDefault ==
  exportDefaultDeclaration(
    classDeclaration(identifier("Panel"),
                     memberExpression(identifier("React"), identifier("Component"))))

\* export default () => null;
AnonymousDefault ==
  exportDefaultDeclaration(arrowFunctionExpression(<<>>, nullLiteral))

\* class Tile {}
TileClass == classDeclaration(identifier("Tile"), NullNode)

\* export function helper({ cb }) {
\*   useCustom(cb, [cb, "k", 1, cb.x]);
\*   return useMemo(function () {}, "key", 42, cb.x); }
HelperFunction ==
  exportNamedDeclaration(functionDeclaration(identifier("helper"),
    <<objectPattern(<<objectProperty(identifier("cb"), identifier("cb"))>>)>>,
    blockStatement(<<
      expressionStatement(
        at(callExpression(identifier("useCustom"),
          <<identifier("cb"),
            arrayExpression(<<identifier("cb"), stringLiteral("k"), numericLiteral(1),
                              memberExpression(identifier("cb"), identifier("x"))>>)>>),
          2, 2)),
      returnStatement(
        at(callExpression(identifier("useMemo"),
          <<functionExpression(NullNode, <<>>, blockStatement(<<>>)),
            stringLiteral("key"), numericLiteral(42),
            memberExpression(identifier("cb"), identifier("x"))>>), 3, 9))>>)), <<>>)

\* const x = 1;
ConstX ==
  variableDeclaration(<<variableDeclarator(identifier("x"), numericLiteral(1))>>)

\* const rows = <section>
\*   <Row id="a">first</Row><Row {...rest} /><ui.Box /><ui.Grid cols="2" />
\* </section>;
Rows ==
  variableDeclaration(<<variableDeclarator(identifier("rows"),
    jsxElement(jsxIdentifier("section"), <<>>,
      <<jsxText("\n  "),
        jsxElement(jsxIdentifier("Row"),
          <<jsxAttribute(jsxIdentifier("id"), stringLiteral("a"))>>,
          <<jsxText("first")>>),
        jsxElement(jsxIdentifier("Row"),
          <<jsxSpreadAttribute(identifier("rest"))>>, <<>>),
        jsxElement(jsxMemberExpression(jsxIdentifier("ui"), jsxIdentifier("Box")),
          <<>>, <<>>),
        jsxElement(jsxMemberExpression(jsxIdentifier("ui"), jsxIdentifier("Grid")),
          <<jsxAttribute(jsxIdentifier("cols"), stringLiteral("2"))>>, <<>>),
        jsxText("\n")>>))>>)

\* The statements modules are built from.
Statements ==
  <<ImportCn, ButtonVariants, Widget, ExportDefaultMyComponent, ExportDefaultCard,
    MyComponentFunction, CardArrow, CardMemo, MyComponentForwardRef,
    PanelClassDefault, AnonymousDefault, TileClass, HelperFunction, ConstX, Rows>>

\* The names a top-level statement binds in the module scope.
BoundNames(stmt) ==
  LET decl == IF stmt.type \in {"ExportNamedDeclaration", "ExportDefaultDeclaration"}
              THEN stmt.declaration ELSE stmt
      ofDeclarator(d) == IF isType(d.id, "Identifier") THEN <<d.id.name>> ELSE <<>>
  IN CASE decl.type = "VariableDeclaration" -> Flat(Map(ofDeclarator, decl.declarations))
       [] decl.type \in {"FunctionDeclaration", "ClassDeclaration"} ->
            IF decl.id.type = "null" THEN <<>> ELSE <<decl.id.name>>
       [] decl.type = "ImportDeclaration" ->
            LET localName(spec) == spec.local.name
            IN Map(localName, decl.specifiers)
       [] OTHER -> <<>>

\* A module the parser accepts: at most one default export, and no name
\* bound twice in the module scope.
ParserAccepts(body) ==
  LET names == Flat(Map(BoundNames, body))
  IN /\ \A i, j \in 1..Len(body) :
          (isType(body[i], "ExportDefaultDeclaration")
             /\ isType(body[j], "ExportDefaultDeclaration")) => i = j
     /\ \A i, j \in 1..Len(names) : names[i] = names[j] => i = j

\* The module bodies of at most `n` statements drawn from `stmts`.
Bodies(stmts, n) ==
  LET pick == UNION {[1..k -> 1..Len(stmts)] : k \in 0..n}
      stmtAt(i) == stmts[i]
      bodyOf(idx) == Map(stmtAt, idx)
  IN {idx \in pick : ParserAccepts(bodyOf(idx))}

\* ASTParser.parseCode of the module with the statements `stmts[idx[i]]`.
parseCode(stmts, idx) ==
  LET stmtAt(i) == stmts[i] IN program(Map(stmtAt, idx))

(***************************************************************************)
(* TreeSift.analyze                                                        *)
(***************************************************************************)
\* The analyzers, in the order TreeSift.analyze runs them.
Analyzers ==
  <<"ComponentNameAnalyzer", "ImportAnalyzer", "PropAnalyzer", "HookAnalyzer",
    "ExportAnalyzer", "JSXElementAnalyzer", "CVAAnalyzer", "ClassNamesAnalyzer",
    "StylingLibraryAnalyzer">>

AnalyzerSet == {Analyzers[i] : i \in 1..Len(Analyzers)}

\* analyzer.analyze(ast, context) of a fresh instance of the named analyzer.
analyze(analyzer, tree, ctx) ==
  CASE analyzer = "ComponentNameAnalyzer" -> ComponentNameAnalyzer(tree, ctx)
    [] analyzer = "ImportAnalyzer" -> ImportAnalyzer(tree, ctx)
    [] analyzer = "PropAnalyzer" -> PropAnalyzer(tree, ctx)
    [] analyzer = "HookAnalyzer" -> HookAnalyzer(tree, ctx)
    [] analyzer = "ExportAnalyzer" -> ExportAnalyzer(tree, ctx)
    [] analyzer = "JSXElementAnalyzer" -> JSXElementAnalyzer(tree, ctx)
    [] analyzer = "CVAAnalyzer" -> CVAAnalyzer(tree, ctx)
    [] analyzer = "ClassNamesAnalyzer" -> ClassNamesAnalyzer(tree, ctx)
    [] analyzer = "StylingLibraryAnalyzer" -> StylingLibraryAnalyzer(tree, ctx)

\* An analyzer raises a TypeError when it assigns a property of
\* context.dependencies and the context has no `dependencies` object.
throws(analyzer, ctx) ==
  /\ analyzer \in {"ImportAnalyzer", "JSXElementAnalyzer"}
  /\ "dependencies" \notin DOMAIN ctx

\* The record TreeSift.analyze returns when the pipeline runs over `tree`.
runPipeline(tree, path) ==
  LET run(ctx, analyzer) == analyze(analyzer, tree, ctx)
  IN FoldLeft(run, createComponentContext(path), Analyzers)

\* The paths TreeSift.analyze is called with.
Paths == {"test", "/path/to/Component.tsx"}

VARIABLES
  ast,        \* the tree ASTParser.parseCode returns for the source embedded in analyze
  filePath,   \* the argument of the call of analyze in progress
  pc,         \* "idle", "running" (inside analyze) or "aborted" (an analyzer threw)
  ran,        \* the analyzers that have run in the call in progress
  context,    \* the ComponentContext of the call in progress
  results,    \* the records returned by the calls of analyze so far
  reordered,  \* whether an analyzer ran out of the order of TreeSift.analyze
  stylingScores \* the scores map of StylingLibraryAnalyzer.analyze, as handed to
              \* calculateConfidence in the call in progress

vars == <<ast, filePath, pc, ran, context, results, reordered, stylingScores>>

InitWith(stmts) ==
  /\ \E idx \in Bodies(stmts, MaxStmts) : ast = parseCode(stmts, idx)
  /\ filePath = ""
  /\ pc = "idle"
  /\ ran = {}
  /\ context = createComponentContext("")
  /\ results = <<>>
  /\ reordered = FALSE
  /\ stylingScores = newScores

Init == InitWith(Statements)

\* analyze with the context object kept from the previous call instead of a
\* newly created one.
CallReusingContext(paths, maxCalls) ==
  /\ pc = "idle"
  /\ Len(results) < maxCalls
  /\ \E p \in paths :
       /\ filePath' = p
       /\ context' = [context EXCEPT !.filePath = p]
  /\ pc' = "running"
  /\ ran' = {}
  /\ stylingScores' = newScores
  /\ UNCHANGED <<ast, results, reordered>>

\* TreeSift.analyze(filePath), up to the first analyzer: the context is
\* created and the embedded source is parsed; the file at filePath is not read.
Call(paths, maxCalls) ==
  /\ pc = "idle"
  /\ Len(results) < maxCalls
  /\ \E p \in paths :
       /\ filePath' = p
       /\ context' = createComponentContext(p)
  /\ pc' = "running"
  /\ ran' = {}
  /\ stylingScores' = newScores
  /\ UNCHANGED <<ast, results, reordered>>

\* The position of an analyzer in TreeSift.analyze.
PositionOf(analyzer) == CHOOSE i \in 1..Len(Analyzers) : Analyzers[i] = analyzer

\* The analyzer is the next one TreeSift.analyze runs.
IsNext(analyzer) ==
  /\ pc = "running"
  /\ ran = {Analyzers[i] : i \in 1..(PositionOf(analyzer) - 1)}

\* new Analyzer().analyze(ast, context), where `analyzed` is the context the
\* analyzer leaves.
Run(analyzer, analyzed) ==
  /\ IF throws(analyzer, context)
     THEN pc' = "aborted" /\ UNCHANGED <<context, ran>>
     ELSE /\ context' = analyzed
          /\ ran' = ran \cup {analyzer}
          /\ pc' = pc
  /\ reordered' = (reordered \/ ~IsNext(analyzer))
  /\ UNCHANGED <<ast, filePath, results>>

RunComponentNameAnalyzer ==
  /\ IsNext("ComponentNameAnalyzer")
  /\ Run("ComponentNameAnalyzer", ComponentNameAnalyzer(ast, context))
  /\ UNCHANGED stylingScores

RunImportAnalyzer ==
  /\ IsNext("ImportAnalyzer")
  /\ Run("ImportAnalyzer", ImportAnalyzer(ast, context))
  /\ UNCHANGED stylingScores

RunPropAnalyzer ==
  /\ IsNext("PropAnalyzer")
  /\ Run("PropAnalyzer", PropAnalyzer(ast, context))
  /\ UNCHANGED stylingScores

RunHookAnalyzer ==
  /\ IsNext("HookAnalyzer")
  /\ Run("HookAnalyzer", HookAnalyzer(ast, context))
  /\ UNCHANGED stylingScores

RunExportAnalyzer ==
  /\ IsNext("ExportAnalyzer")
  /\ Run("ExportAnalyzer", ExportAnalyzer(ast, context))
  /\ UNCHANGED stylingScores

RunJSXElementAnalyzer ==
  /\ IsNext("JSXElementAnalyzer")
  /\ Run("JSXElementAnalyzer", JSXElementAnalyzer(ast, context))
  /\ UNCHANGED stylingScores

RunCVAAnalyzer ==
  /\ IsNext("CVAAnalyzer")
  /\ Run("CVAAnalyzer", CVAAnalyzer(ast, context))
  /\ UNCHANGED stylingScores

RunClassNamesAnalyzer ==
  /\ IsNext("ClassNamesAnalyzer")
  /\ Run("ClassNamesAnalyzer", ClassNamesAnalyzer(ast, context))
  /\ UNCHANGED stylingScores

RunStylingLibraryAnalyzer ==
  /\ IsNext("StylingLibraryAnalyzer")
  /\ Run("StylingLibraryAnalyzer", StylingLibraryAnalyzer(ast, context))
  /\ stylingScores' = collectScores(ast, context)

\* return context;
Return ==
  /\ pc = "running"
  /\ ran = AnalyzerSet
  /\ results' = Append(results, context)
  /\ pc' = "idle"
  /\ UNCHANGED <<ast, filePath, ran, context, reordered, stylingScores>>

Next ==
  \/ Call(Paths, MaxRuns)
  \/ RunComponentNameAnalyzer
  \/ RunImportAnalyzer
  \/ RunPropAnalyzer
  \/ RunHookAnalyzer
  \/ RunExportAnalyzer
  \/ RunJSXElementAnalyzer
  \/ RunCVAAnalyzer
  \/ RunClassNamesAnalyzer
  \/ RunStylingLibraryAnalyzer
  \/ Return

Spec == Init /\ [][Next]_vars

(***************************************************************************)
(* The analyzers in any order that runs CVAAnalyzer before                 *)
(* StylingLibraryAnalyzer: one call of analyze over a module built from    *)
(* the statements below.                                                   *)
(***************************************************************************)
StatementsAnyOrder == <<ButtonVariants, Widget, CardArrow, ExportDefaultCard>>

InitAnyOrder == InitWith(StatementsAnyOrder)

CallAnyOrder == Call({"test"}, 1)

RunInAnyOrder ==
  \E analyzer \in AnalyzerSet :
    /\ pc = "running"
    /\ analyzer \notin ran
    /\ analyzer = "StylingLibraryAnalyzer" => "CVAAnalyzer" \in ran
    /\ Run(analyzer, analyze(analyzer, ast, context))
    /\ stylingScores' = IF analyzer = "StylingLibraryAnalyzer"
                        THEN collectScores(ast, context) ELSE stylingScores

NextAnyOrder == CallAnyOrder \/ RunInAnyOrder \/ Return

SpecAnyOrder == InitAnyOrder /\ [][NextAnyOrder]_vars

(***************************************************************************)
(* Properties of the pipeline                                              *)
(***************************************************************************)
\* The nodes of the module in document order.
NodesOf(tree) ==
  LET nodeOf(path) == path.node IN Map(nodeOf, traverseAST(tree))

\* C1: two calls of TreeSift.analyze with the same file path return identical
\* records, and every call starts from a newly created context: nothing an
\* earlier call left behind is visible in a later one.
C1_CallsAreIndependent ==
  /\ \A i, j \in 1..Len(results) :
       results[i].filePath = results[j].filePath => results[i] = results[j]
  /\ (pc = "running" /\ ran = {}) => context = createComponentContext(filePath)

\* A second call with the path of the first has returned a record in which
\* the analyzers found a component, props and hooks.
C1_Witness ==
  /\ Len(results) = 2
  /\ results[1].filePath = results[2].filePath
  /\ results[2].name # "Unknown"
  /\ results[2].props # <<>>
  /\ results[2].hooks # <<>>

\* C2: when the nine analyzers have run in any order that puts CVAAnalyzer
\* before StylingLibraryAnalyzer, the context equals the record of the fixed
\* order of TreeSift.analyze.
C2_OrderIndependent ==
  (pc = "running" /\ ran = AnalyzerSet) => context = runPipeline(ast, filePath)

\* All nine analyzers have run, some of them out of the fixed order, over a
\* module with a cva configuration and a component.
C2_Witness ==
  /\ pc = "running"
  /\ ran = AnalyzerSet
  /\ reordered
  /\ context.cvaConfigs # <<>>
  /\ context.name # "Unknown"

\* The node kinds no analyzer matches: declarations of lowercase constants
\* with a numeric initializer.
NoAnalyzerMatches(tree) ==
  LET nodes == NodesOf(tree)
  IN \A i \in 1..Len(nodes) :
       /\ nodes[i].type \in {"Program", "VariableDeclaration", "VariableDeclarator",
                              "Identifier", "NumericLiteral"}
       /\ nodes[i].type = "Identifier" =>
            matchLower(nodes[i].name) /\ nodes[i].name # "props"

\* C3: no analyzer aborts the pipeline; every returned record has all its
\* fields, `dependencies` with both `packages` and `components`; and for a
\* module in which no analyzer matches anything the record is the defaults.
C3_AlwaysCompleteRecord ==
  /\ pc # "aborted"
  /\ \A i \in 1..Len(results) :
       LET r == results[i]
       IN /\ DOMAIN r = {"name", "filePath", "exportType", "type", "props", "hooks",
                         "cvaConfigs", "classNames", "classNamesUsage",
                         "dependencies", "jsxStructure", "contexts", "hocWrappers",
                         "stylingLibrary"}
          /\ DOMAIN r.dependencies = {"packages", "components"}
          /\ DOMAIN r.classNames = {"importSource", "importName", "usages"}
          /\ DOMAIN r.classNamesUsage = {"hasClassNames", "importSource", "usage"}
          /\ DOMAIN r.stylingLibrary = {"type", "confidence", "indicators"}
          /\ NoAnalyzerMatches(ast) =>
               /\ r.name = "Unknown" /\ r.type = "Unknown" /\ r.exportType = "named"
               /\ r.props = <<>> /\ r.hooks = <<>> /\ r.cvaConfigs = <<>>
               /\ r.dependencies = [packages |-> <<>>, components |-> <<>>]
               /\ r.classNames =
                    [importSource |-> <<>>, importName |-> <<>>, usages |-> <<>>]
               /\ r.classNamesUsage =
                    [hasClassNames |-> FALSE, importSource |-> "", usage |-> <<>>]
               /\ r.stylingLibrary =
                    [type |-> "unknown", confidence |-> 0, indicators |-> <<>>]

\* A call over a module of declarations no analyzer matches has returned.
C3_Witness ==
  /\ Len(results) >= 1
  /\ ast.body # <<>>
  /\ NoAnalyzerMatches(ast)

\* The component files on disk: each path names a file of its own.
FilesOnDisk ==
  [p \in Paths |-> IF p = "test" THEN program(<<Widget>>)
                   ELSE program(<<MyComponentFunction, ExportDefaultMyComponent>>)]

\* C4: the record analyze(filePath) returns describes the file at filePath:
\* it is the record of the pipeline over that file's tree, with that path.
C4_AnalyzesFileAtPath ==
  \A i \in 1..Len(results) :
    results[i] = runPipeline(FilesOnDisk[results[i].filePath], results[i].filePath)

\* C5: for a module with no default export and no declaration whose
\* identifier starts with an uppercase letter, ComponentNameAnalyzer leaves
\* name and type 'Unknown'.
C5_UnknownWithoutCandidate ==
  LET nodes == NodesOf(ast)
      hasDefaultExport ==
        \E i \in 1..Len(nodes) : nodes[i].type = "ExportDefaultDeclaration"
      hasUppercaseDeclaration ==
        \E i \in 1..Len(nodes) :
          /\ nodes[i].type \in {"VariableDeclarator", "FunctionDeclaration",
                                "ClassDeclaration"}
          /\ nodes[i].id.type = "Identifier"
          /\ SubSeq(nodes[i].id.name, 1, 1) \in UpperCaseLetters
  IN ("ComponentNameAnalyzer" \in ran /\ ~hasDefaultExport /\ ~hasUppercaseDeclaration)
       => context.name = "Unknown" /\ context.type = "Unknown"

\* ComponentNameAnalyzer has run over a module that exports the lowercase
\* function `helper` and has no default export.
C5_Witness ==
  /\ "ComponentNameAnalyzer" \in ran
  /\ \E i \in 1..Len(ast.body) : ast.body[i] = HelperFunction
  /\ \A i \in 1..Len(ast.body) :
       ast.body[i] \in {HelperFunction, ConstX, ButtonVariants, ImportCn}

\* The default-export statements of the module.
DefaultExportsOf(tree) ==
  LET isDefault(stmt) == stmt.type = "ExportDefaultDeclaration"
  IN Filter(isDefault, tree.body)

\* The component types of the declarations of `name` in the module.
DeclaredTypesOf(tree, name) ==
  LET nodes == NodesOf(tree)
      isForwardRef(call) ==
        /\ call.type = "CallExpression"
        /\ \/ call.callee.type = "Identifier" /\ call.callee.name = "forwardRef"
           \/ /\ call.callee.type = "MemberExpression"
              /\ call.callee.object.type = "Identifier"
              /\ call.callee.object.name = "React"
              /\ call.callee.property.type = "Identifier"
              /\ call.callee.property.name = "forwardRef"
      typeOf(n) ==
        IF n.type \in {"FunctionDeclaration", "ClassDeclaration"}
        THEN IF n.id.type = "Identifier" /\ n.id.name = name THEN {n.type} ELSE {}
        ELSE IF n.type = "VariableDeclarator" /\ n.id.type = "Identifier"
                /\ n.id.name = name
        THEN IF n.init.type \in {"ArrowFunctionExpression", "FunctionExpression"}
             THEN {n.init.type}
             ELSE IF isForwardRef(n.init) THEN {"ForwardRefComponent"} ELSE {}
        ELSE {}
  IN UNION {typeOf(nodes[i]) : i \in 1..Len(nodes)}

\* C6: with a default export the identity comes from it whatever else the
\* module declares: a default-exported named function gives its name and
\* FunctionDeclaration; a default-exported identifier X gives X with the
\* type of the declaration of X, Unknown when none is recognised; any other
\* default export gives what it gives alone in a module.
C6_IdentityFromDefaultExport ==
  LET defaults == DefaultExportsOf(ast)
      d == defaults[1].declaration
      identity == [name |-> context.name, type |-> context.type]
  IN ("ComponentNameAnalyzer" \in ran /\ defaults # <<>>) =>
       IF d.type = "FunctionDeclaration" /\ d.id.type = "Identifier"
       THEN identity = [name |-> d.id.name, type |-> "FunctionDeclaration"]
       ELSE IF d.type = "Identifier"
       THEN /\ context.name = d.name
            /\ IF DeclaredTypesOf(ast, d.name) = {} THEN context.type = "Unknown"
               ELSE context.type \in DeclaredTypesOf(ast, d.name)
       ELSE identity = detectComponentInfo(program(<<defaults[1]>>))

\* C7: when the component ComponentNameAnalyzer identified is the default
\* export of the module, the record's exportType is 'default'.
C7_DefaultExportType ==
  LET isIdentified(stmt) ==
        /\ stmt.type = "ExportDefaultDeclaration"
        /\ \/ /\ stmt.declaration.type = "Identifier"
              /\ stmt.declaration.name = context.name
           \/ /\ stmt.declaration.type \in {"FunctionDeclaration", "ClassDeclaration"}
              /\ stmt.declaration.id.type = "Identifier"
              /\ stmt.declaration.id.name = context.name
  IN (/\ pc = "running"
      /\ ran = AnalyzerSet
      /\ \E i \in 1..Len(ast.body) : isIdentified(ast.body[i]))
       => context.exportType = "default"

\* The prop names the three heuristics match at a node and below it, in
\* document order.
RECURSIVE PropOccurrences(_)
PropOccurrences(node) ==
  LET keysOf(pattern) ==
        LET key(prop) ==
              IF prop.type = "ObjectProperty" /\ prop.key.type = "Identifier"
              THEN <<prop.key.name>> ELSE <<>>
        IN Flat(Map(key, pattern.properties))
      ofParam(param) == IF param.type = "ObjectPattern" THEN keysOf(param) ELSE <<>>
      member == IF node.type = "MemberExpression" /\ node.object.type = "Identifier"
                   /\ node.object.name = "props" /\ node.property.type = "Identifier"
                THEN <<node.property.name>> ELSE <<>>
      params == IF node.type \in {"FunctionDeclaration", "ArrowFunctionExpression"}
                THEN Flat(Map(ofParam, node.params)) ELSE <<>>
      declarator == IF node.type = "VariableDeclarator" /\ node.init.type = "Identifier"
                       /\ node.init.name = "props" /\ node.id.type = "ObjectPattern"
                    THEN keysOf(node.id) ELSE <<>>
  IN member \o params \o declarator \o Flat(Map(PropOccurrences, ChildNodes(node)))

\* C8: props holds one record per occurrence matched by the three
\* heuristics, in document order with repeated names kept, each of type
\* 'any' and optional; for the Widget module it is the one entry `title`.
C8_OneRecordPerOccurrence ==
  LET names == PropOccurrences(ast)
  IN "PropAnalyzer" \in ran =>
       /\ Len(context.props) = Len(names)
       /\ \A i \in 1..Len(names) :
            context.props[i] = [name |-> names[i], type |-> "any", isOptional |-> TRUE]
       /\ ast = program(<<Widget>>) =>
            context.props = <<[name |-> "title", type |-> "any", isOptional |-> TRUE]>>

\* PropAnalyzer has run over a module in which `title` occurs twice.
C8_Witness ==
  /\ "PropAnalyzer" \in ran
  /\ Len(context.props) >= 3
  /\ \E i, j \in 1..Len(context.props) :
       i # j /\ context.props[i].name = "title" /\ context.props[j].name = "title"

\* The JSX elements of the module in document order.
JSXElementsOf(tree) ==
  LET isElement(n) == n.type = "JSXElement" IN Filter(isElement, NodesOf(tree))

\* The tag name of a JSX element as written: `Row`, `ui.Box`.
TagNameOf(element) ==
  LET tag == element.openingElement.name
  IN IF tag.type = "JSXIdentifier" THEN tag.name
     ELSE tag.object.name \o "." \o tag.property.name

\* C9 as claimed: one entry per distinct tag name of the module, equal to the
\* record of the last element with that tag name.
C9_OneEntryPerTagName ==
  LET elements == JSXElementsOf(ast)
      components == context.dependencies.components
      tagNames == {TagNameOf(elements[k]) : k \in 1..Len(elements)}
      isLast(k, name) ==
        /\ TagNameOf(elements[k]) = name
        /\ \A l \in (k + 1)..Len(elements) : TagNameOf(elements[l]) # name
  IN "JSXElementAnalyzer" \in ran =>
       /\ Len(components) = Cardinality(tagNames)
       /\ \A name \in tagNames :
            \E i \in 1..Len(components) : \E k \in 1..Len(elements) :
              /\ isLast(k, name)
              /\ components[i] = elementInfoOf(elements[k])

\* The name an element is recorded under: the identifier of its tag, or
\* 'Unknown' for a tag that is not a plain identifier.
RecordedNameOf(element) ==
  IF element.openingElement.name.type = "JSXIdentifier"
  THEN element.openingElement.name.name ELSE "Unknown"

\* C9: the components hold one entry per distinct recorded name (the tag's
\* identifier, 'Unknown' for every tag that is not a plain identifier), and
\* the entry is the record of the last element with that recorded name.
C9_OneEntryPerRecordedName ==
  LET elements == JSXElementsOf(ast)
      components == context.dependencies.components
      names == {RecordedNameOf(elements[k]) : k \in 1..Len(elements)}
      isLast(k, name) ==
        /\ RecordedNameOf(elements[k]) = name
        /\ \A l \in (k + 1)..Len(elements) : RecordedNameOf(elements[l]) # name
  IN "JSXElementAnalyzer" \in ran =>
       /\ Len(components) = Cardinality(names)
       /\ {components[i].name : i \in 1..Len(components)} = names
       /\ \A i \in 1..Len(components) : \A k \in 1..Len(elements) :
            isLast(k, components[i].name) =>
              /\ components[i].props = elementInfoOf(elements[k]).props
              /\ components[i].children = elementInfoOf(elements[k]).children
              /\ components[i].attributes = elementInfoOf(elements[k]).attributes

\* JSXElementAnalyzer has run over the `rows` module: two `Row` elements and
\* two member-expression tags gave the entries section, Row and Unknown.
C9_Witness ==
  /\ "JSXElementAnalyzer" \in ran
  /\ \E i \in 1..Len(ast.body) : ast.body[i] = Rows
  /\ \E i \in 1..Len(context.dependencies.components) :
       /\ context.dependencies.components[i].name = "Row"
       /\ context.dependencies.components[i].props =
            <<[name |-> "...", value |-> <<>>, isSpread |-> TRUE]>>
  /\ \E i \in 1..Len(context.dependencies.components) :
       context.dependencies.components[i].name = "Unknown"

\* The hook calls of the module in document order.
HookCallsOf(tree) ==
  LET isHookCall(n) ==
        /\ n.type = "CallExpression"
        /\ n.callee.type = "Identifier"
        /\ Len(n.callee.name) >= 3
        /\ SubSeq(n.callee.name, 1, 3) = "use"
  IN Filter(isHookCall, NodesOf(tree))

\* C10: in every recorded hook call an argument that is an arrow function or
\* a function expression is recorded as "() => {...}", an identifier as its
\* name, a string literal as its value, a numeric literal as its decimal
\* string, and any other argument that is not an array as "...".
C10_HookArguments ==
  LET calls == HookCallsOf(ast)
  IN "HookAnalyzer" \in ran =>
       /\ Len(context.hooks) = Len(calls)
       /\ \A k \in 1..Len(calls) :
            /\ context.hooks[k].name = calls[k].callee.name
            /\ Len(context.hooks[k].arguments) = Len(calls[k].arguments)
            /\ \A i \in 1..Len(calls[k].arguments) :
                 LET arg == calls[k].arguments[i]
                     text == context.hooks[k].arguments[i]
                 IN CASE arg.type \in {"ArrowFunctionExpression", "FunctionExpression"} ->
                           text = "() => {...}"
                      [] arg.type = "Identifier" -> text = arg.name
                      [] arg.type = "StringLiteral" -> text = arg.value
                      [] arg.type = "NumericLiteral" -> text = ToString(arg.value)
                      [] arg.type = "ArrayExpression" -> TRUE
                      [] OTHER -> text = "..."

\* HookAnalyzer has run over a module with useEffect called with an arrow
\* function and useMemo with a function expression.
C10_Witness ==
  /\ "HookAnalyzer" \in ran
  /\ \E k \in 1..Len(context.hooks) :
       /\ context.hooks[k].name = "useEffect"
       /\ context.hooks[k].arguments[1] = "() => {...}"
  /\ \E k \in 1..Len(context.hooks) :
       /\ context.hooks[k].name = "useMemo"
       /\ context.hooks[k].arguments = <<"() => {...}", "key", "42", "...">>

(***************************************************************************)
(* Styling detection: one call of analyze over a module built from         *)
(* statements that carry the styling indicators the analyzers score.       *)
(***************************************************************************)
\* import styled from "styled-components";
ImportStyled ==
  importDeclaration(<<importDefaultSpecifier(identifier("styled"))>>,
                    stringLiteral("styled-components"))

\* import { css } from "@emotion/react";
ImportEmotion ==
  importDeclaration(<<importSpecifier(identifier("css"), identifier("css"))>>,
                    stringLiteral("@emotion/react"))

\* import styles from "./Button.module.css";
ImportModuleCss ==
  importDeclaration(<<importDefaultSpecifier(identifier("styles"))>>,
                    stringLiteral("./Button.module.css"))

\* import "./globals.css";
ImportCss == importDeclaration(<<>>, stringLiteral("./globals.css"))

\* const plainVariants = cva("box");
PlainVariants ==
  variableDeclaration(<<variableDeclarator(identifier("plainVariants"),
    at(callExpression(identifier("cva"), <<stringLiteral("box")>>), 1, 22))>>)

\* const plain = <div className="card" />;
PlainDiv ==
  variableDeclaration(<<variableDeclarator(identifier("plain"),
    jsxElement(jsxIdentifier("div"),
      <<jsxAttribute(jsxIdentifier("className"), stringLiteral("card"))>>, <<>>))>>)

\* const Title = styled`color: red;`;
TitleStyled ==
  variableDeclaration(<<variableDeclarator(identifier("Title"),
    taggedTemplateExpression(identifier("styled"),
      templateLiteral(<<templateElement("color: red;")>>, <<>>)))>>)

\* const base = css({ color: "red" });
BaseCss ==
  variableDeclaration(<<variableDeclarator(identifier("base"),
    at(callExpression(identifier("css"),
      <<objectExpression(<<objectProperty(identifier("color"),
                                          stringLiteral("red"))>>)>>), 1, 13))>>)

\* import styledMacro from "styled-components/macro";
ImportStyledMacro ==
  importDeclaration(<<importDefaultSpecifier(identifier("styledMacro"))>>,
                    stringLiteral("styled-components/macro"))

\* import { jsx } from "@emotion/react/macro";
ImportEmotionMacro ==
  importDeclaration(<<importSpecifier(identifier("jsx"), identifier("jsx"))>>,
                    stringLiteral("@emotion/react/macro"))

\* import tw from "tailwind-styled-components";
ImportTailwindStyled ==
  importDeclaration(<<importDefaultSpecifier(identifier("tw"))>>,
                    stringLiteral("tailwind-styled-components"))

StatementsStyling ==
  <<ImportCn, ImportStyled, ImportEmotion, ImportModuleCss, ImportCss,
    ButtonVariants, PlainVariants, Widget, CardArrow, PlainDiv, TitleStyled, BaseCss>>

\* Modules of imports whose sources equal or only contain a scored pattern,
\* with a styled template, a css call and a Tailwind class attribute.
StatementsImports ==
  <<ImportCn, ImportStyled, ImportEmotion, ImportStyledMacro, ImportEmotionMacro,
    ImportTailwindStyled, TitleStyled, BaseCss, Widget>>

InitStyling == InitWith(StatementsStyling)

\* TreeSift.analyze('test'), once.
NextOneCall ==
  \/ CallAnyOrder
  \/ RunComponentNameAnalyzer
  \/ RunImportAnalyzer
  \/ RunPropAnalyzer
  \/ RunHookAnalyzer
  \/ RunExportAnalyzer
  \/ RunJSXElementAnalyzer
  \/ RunCVAAnalyzer
  \/ RunClassNamesAnalyzer
  \/ RunStylingLibraryAnalyzer
  \/ Return

SpecStyling == InitStyling /\ [][NextOneCall]_vars

InitImports == InitWith(StatementsImports)

SpecImports == InitImports /\ [][NextOneCall]_vars

(***************************************************************************)
(* Properties of styling detection                                         *)
(***************************************************************************)
\* The utility-class prefixes of Tailwind-like class names.
UtilityClassPrefixes ==
  {"text-", "bg-", "p-", "m-", "flex-", "grid-", "w-", "h-", "rounded-",
   "border-", "shadow-", "transition-", "hover:", "focus:", "active:",
   "disabled:", "dark:", "light:"}

\* The node is a `className` attribute whose value is a string literal that
\* contains one of the utility-class prefixes.
IsUtilityClassAttribute(node) ==
  /\ node.type = "JSXAttribute"
  /\ node.name.type = "JSXIdentifier"
  /\ node.name.name = "className"
  /\ node.value.type = "StringLiteral"
  /\ \E prefix \in UtilityClassPrefixes : includes(node.value.value, prefix)

\* C11: a `className` attribute with a string literal value that contains a
\* utility-class prefix adds 25 to the tailwind score and the indicator
\* "Uses Tailwind-like class: <value>"; any other node leaves the scores as
\* they are; and the scores of a run hold one such indicator per such
\* attribute, in document order.
C11_TailwindClassAttributes ==
  "StylingLibraryAnalyzer" \in ran =>
    LET nodes == NodesOf(ast)
        seed == seedFromCvaConfigs(newScores, context)
        attributes == Filter(IsUtilityClassAttribute, nodes)
        indicatorOf(node) == "Uses Tailwind-like class: " \o node.value.value
        isClassIndicator(text) == startsWith(text, "Uses Tailwind-like class: ")
        tailwind == collectScores(ast, context)["tailwind"]
    IN /\ \A i \in 1..Len(nodes) :
            analyzeClassNames(nodes[i], seed) =
              IF IsUtilityClassAttribute(nodes[i])
              THEN [seed EXCEPT !["tailwind"] =
                      [score |-> @.score + 25,
                       indicators |-> Append(@.indicators, indicatorOf(nodes[i]))]]
              ELSE seed
       /\ Filter(isClassIndicator, tailwind.indicators) = Map(indicatorOf, attributes)
       /\ tailwind.score >= 25 * Len(attributes)
       /\ context.stylingLibrary.type = "tailwind" =>
            \A i \in 1..Len(attributes) :
              \E k \in 1..Len(context.stylingLibrary.indicators) :
                context.stylingLibrary.indicators[k] = indicatorOf(attributes[i])

\* The styling analyzer has run over a module with a className="p-2"
\* attribute and a className="card" attribute.
C11_Witness ==
  /\ "StylingLibraryAnalyzer" \in ran
  /\ ast = program(<<Widget, PlainDiv>>)
  /\ context.stylingLibrary.type = "tailwind"
  /\ context.stylingLibrary.indicators = <<"Uses Tailwind-like class: p-2">>

\* The strings a JSON value holds, at any depth.
RECURSIVE StringsIn(_)
StringsIn(value) ==
  CASE value.t = "string" -> {value.v}
    [] value.t = "array" -> UNION {StringsIn(value.v[i]) : i \in 1..Len(value.v)}
    [] value.t = "object" -> UNION {StringsIn(value.v[i].value) : i \in 1..Len(value.v)}
    [] OTHER -> {}

\* C12: the config of `buttonVariants` is reconstructed to a value with base
\* "px-4 py-2" and variants.intent.primary "bg-blue-500"; the seed step gives
\* cva 100 if there is any config, however many, and tailwind 50 for each
\* config whose reconstructed value holds a string with a utility-class
\* prefix; no other rule changes the cva score.
C12_CvaConfigSeeds ==
  "CVAAnalyzer" \in ran =>
    LET configs == context.cvaConfigs
        valueOf(config) == JSONparse(config.configObject)
        hasUtilityClass(config) ==
          /\ valueOf(config).ok
          /\ \E str \in StringsIn(valueOf(config).value) :
               \E prefix \in UtilityClassPrefixes : includes(str, prefix)
        seed == seedFromCvaConfigs(newScores, context)
        declared(stmt) == \E i \in 1..Len(ast.body) : ast.body[i] = stmt
        named(name) == \E i \in 1..Len(configs) : configs[i].variableName = name
    IN /\ declared(ButtonVariants) <=> named("buttonVariants")
       /\ \A i \in 1..Len(configs) :
            configs[i].variableName = "buttonVariants" =>
              /\ valueOf(configs[i]).ok
              /\ ObjectGet(valueOf(configs[i]).value, "base") = JString("px-4 py-2")
              /\ ObjectGet(ObjectGet(ObjectGet(valueOf(configs[i]).value, "variants"),
                                     "intent"), "primary") = JString("bg-blue-500")
              /\ hasUtilityClass(configs[i])
       /\ seed["cva"].score = IF Len(configs) > 0 THEN 100 ELSE 0
       /\ seed["tailwind"].score = 50 * Len(Filter(hasUtilityClass, configs))
       /\ "StylingLibraryAnalyzer" \in ran =>
            /\ collectScores(ast, context)["cva"].score = seed["cva"].score
            /\ collectScores(ast, context)["tailwind"].score >= seed["tailwind"].score
            /\ context.stylingLibrary.type = "cva" =>
                 context.stylingLibrary.indicators[1] =
                   "Found " \o toString(Len(configs)) \o " CVA configuration(s)"

\* The pipeline has run over a module with two cva configs, one of them with
\* Tailwind classes: cva scores 100, tailwind 50.
C12_Witness ==
  /\ "StylingLibraryAnalyzer" \in ran
  /\ ast = program(<<ButtonVariants, PlainVariants>>)
  /\ Len(context.cvaConfigs) = 2
  /\ context.stylingLibrary =
       [type |-> "cva", confidence |-> 100,
        indicators |-> <<"Found 2 CVA configuration(s)", "CVA config: buttonVariants",
                         "CVA config: plainVariants">>]

CategoryOrder == <<"tailwind", "styled-components", "emotion", "cva", "unknown">>

\* The earliest category in CategoryOrder with the highest score.
FirstOfHighest(scores) ==
  LET highest(i) == \A j \in 1..Len(CategoryOrder) :
                      scores[CategoryOrder[j]].score <= scores[CategoryOrder[i]].score
      first == CHOOSE i \in 1..Len(CategoryOrder) :
                 highest(i) /\ \A j \in 1..(i - 1) : ~highest(j)
  IN CategoryOrder[first]

\* C14 as claimed: the detected type is the earliest category, in the order
\* tailwind, styled-components, emotion, cva, unknown, with the highest score.
C14_FirstOfHighest ==
  "StylingLibraryAnalyzer" \in ran =>
    context.stylingLibrary.type = FirstOfHighest(collectScores(ast, context))

\* C14: when some category has a positive score, the detected type is the
\* earliest category, in the order tailwind, styled-components, emotion, cva,
\* unknown, with the highest score.
C14_FirstOfHighestPositive ==
  "StylingLibraryAnalyzer" \in ran =>
    LET scores == collectScores(ast, context)
    IN (\E lib \in DOMAIN scores : scores[lib].score > 0) =>
         context.stylingLibrary.type = FirstOfHighest(scores)

\* The pipeline has run over a module that imports @emotion/react and then
\* styled-components: both categories score 50 and styled-components wins.
C14_Witness ==
  /\ "StylingLibraryAnalyzer" \in ran
  /\ ast = program(<<ImportEmotion, ImportStyled>>)
  /\ collectScores(ast, context)["emotion"].score = 50
  /\ collectScores(ast, context)["styled-components"].score = 50
  /\ context.stylingLibrary.type = "styled-components"

\* No scoring rule fired: every category has the score 0.
NoRuleFired(scores) == \A lib \in DOMAIN scores : scores[lib].score = 0

\* C15: if every category score is 0 the styling result is exactly
\* {type: 'unknown', confidence: 0, indicators: []}.
C15_UnknownWithoutScore ==
  ("StylingLibraryAnalyzer" \in ran /\ NoRuleFired(collectScores(ast, context))) =>
    context.stylingLibrary = [type |-> "unknown", confidence |-> 0, indicators |-> <<>>]

\* The pipeline has run over a module with a className="card" attribute and
\* nothing a scoring rule matches.
C15_Witness ==
  /\ "StylingLibraryAnalyzer" \in ran
  /\ ast = program(<<PlainDiv>>)
  /\ NoRuleFired(collectScores(ast, context))
  /\ context.stylingLibrary.type = "unknown"

\* The call expressions of the module, in document order, whose callee is a
\* className utility: an identifier named cn, clsx, classnames or cx, or the
\* local name an import specifier gives to one of them.
UtilityCallsOf(tree) ==
  LET nodes == NodesOf(tree)
      utilities == {"cn", "clsx", "classnames", "cx"}
      imported(name) ==
        \E i \in 1..Len(nodes) :
          /\ nodes[i].type = "ImportSpecifier"
          /\ nodes[i].imported.name \in utilities
          /\ nodes[i].local.name = name
      isUtilityCall(n) ==
        /\ n.type = "CallExpression"
        /\ n.callee.type = "Identifier"
        /\ (n.callee.name \in utilities \/ imported(n.callee.name))
  IN Filter(isUtilityCall, nodes)

\* C16: the usages are one per matching utility call expression, in document
\* order, also when the call is the expression of a className attribute.
C16_OneUsagePerCall ==
  "ClassNamesAnalyzer" \in ran =>
    LET calls == UtilityCallsOf(ast)
        usage == context.classNamesUsage.usage
    IN /\ Len(usage) = Len(calls)
       /\ \A k \in 1..Len(calls) : usage[k].location = locationOf(calls[k])

(***************************************************************************)
(* Component detection without a default export: one call of analyze over  *)
(* a module built from declarations, exported or not, at the top level or  *)
(* nested.                                                                 *)
(***************************************************************************)
\* function Banner() { return null; }
BannerFunction ==
  functionDeclaration(identifier("Banner"), <<>>,
    blockStatement(<<returnStatement(nullLiteral)>>))

\* export function List() { const Item = () => null; return null; }
ListFunction ==
  exportNamedDeclaration(
    functionDeclaration(identifier("List"), <<>>,
      blockStatement(<<
        variableDeclaration(<<variableDeclarator(identifier("Item"),
          arrowFunctionExpression(<<>>, nullLiteral))>>),
        returnStatement(nullLiteral)>>)),
    <<>>)

StatementsCandidates ==
  <<MyComponentFunction, HelperFunction, CardArrow, TileClass,
    MyComponentForwardRef, BannerFunction, ListFunction, ConstX>>

InitCandidates == InitWith(StatementsCandidates)

SpecCandidates == InitCandidates /\ [][NextOneCall]_vars

\* The candidates among the top-level statements of a module, in document
\* order, as [name, type]: the function, class and variable declarations,
\* exported or not, whose identifier starts with an uppercase letter and
\* which the rules classify.
TopLevelCandidatesOf(tree) ==
  LET declarationOf(stmt) ==
        IF stmt.type = "ExportNamedDeclaration" THEN stmt.declaration ELSE stmt
      isForwardRef(init) ==
        /\ init.type = "CallExpression"
        /\ \/ init.callee.type = "Identifier" /\ init.callee.name = "forwardRef"
           \/ /\ init.callee.type = "MemberExpression"
              /\ init.callee.object.type = "Identifier"
              /\ init.callee.object.name = "React"
              /\ init.callee.property.type = "Identifier"
              /\ init.callee.property.name = "forwardRef"
      ofDeclarator(d) ==
        IF d.id.type # "Identifier" \/ ~matchUpper(d.id.name) THEN <<>>
        ELSE IF d.init.type \in {"ArrowFunctionExpression", "FunctionExpression"}
        THEN <<[name |-> d.id.name, type |-> d.init.type]>>
        ELSE IF isForwardRef(d.init)
        THEN <<[name |-> d.id.name, type |-> "ForwardRefComponent"]>>
        ELSE <<>>
      ofStatement(stmt) ==
        LET decl == declarationOf(stmt)
        IN IF decl.type \in {"FunctionDeclaration", "ClassDeclaration"}
           THEN IF decl.id.type = "Identifier" /\ matchUpper(decl.id.name)
                THEN <<[name |-> decl.id.name, type |-> decl.type]>> ELSE <<>>
           ELSE IF decl.type = "VariableDeclaration"
           THEN Flat(Map(ofDeclarator, decl.declarations))
           ELSE <<>>
  IN Flat(Map(ofStatement, tree.body))

\* C17: without a default export, name and type are those of the last of the
\* top-level candidates in document order.
C17_LastTopLevelCandidate ==
  ("ComponentNameAnalyzer" \in ran /\ DefaultExportsOf(ast) = <<>>) =>
    LET candidates == TopLevelCandidatesOf(ast)
    IN Len(candidates) > 0 =>
         /\ context.name = candidates[Len(candidates)].name
         /\ context.type = candidates[Len(candidates)].type

\* The module imports a CSS Modules stylesheet.
ImportsCssModule(tree) ==
  \E i \in 1..Len(tree.body) :
    /\ tree.body[i].type = "ImportDeclaration"
    /\ endsWith(tree.body[i].source.value, ".module.css")

\* C18: a module that imports a `*.module.css` source and has no other
\* styling indicator is reported as CSS Modules with a positive confidence.
C18_DetectsCssModules ==
  ( /\ "StylingLibraryAnalyzer" \in ran
    /\ ImportsCssModule(ast)
    /\ NoRuleFired(collectScores(ast, context)) ) =>
    /\ context.stylingLibrary.type = "css-modules"
    /\ context.stylingLibrary.confidence > 0

\* The names the default exports of the module resolve to: the identifier
\* exported, the name of the function or class exported, "(anonymous)" for
\* anything else.
DefaultExportNames(tree) ==
  LET resolved(stmt) ==
        IF stmt.declaration.type = "Identifier" THEN stmt.declaration.name
        ELSE IF /\ stmt.declaration.type \in {"FunctionDeclaration", "ClassDeclaration"}
                /\ stmt.declaration.id.type = "Identifier"
        THEN stmt.declaration.id.name
        ELSE "(anonymous)"
  IN { resolved(tree.body[i]) :
         i \in { j \in 1..Len(tree.body) : tree.body[j].type = "ExportDefaultDeclaration" } }

C19_WitnessAnonymous ==
  /\ "ExportAnalyzer" \in ran
  /\ DefaultExportNames(ast) = {"(anonymous)"}
  /\ context.exportType = "named"

\* ExportAnalyzer has run over a module with a default export of another
\* name, reported 'named'.
C19_WitnessOtherName ==
  /\ "ExportAnalyzer" \in ran
  /\ DefaultExportNames(ast) # {}
  /\ DefaultExportNames(ast) \cap {"(anonymous)", "MyComponent"} = {}
  /\ context.exportType = "named"

(***************************************************************************)
(* Hook detection: one call of analyze over modules whose functions call   *)
(* hooks repeatedly, through a member expression, and call other functions.*)
(***************************************************************************)
\* function Counter() {
\*   const a = useState(0);
\*   const b = useState(0);
\*   const c = React.useState(1);
\*   reuse(a);
\*   Use(c);
\*   return used(b); }
CounterFunction ==
  functionDeclaration(identifier("Counter"), <<>>,
    blockStatement(<<
      variableDeclaration(<<variableDeclarator(identifier("a"),
        callExpression(identifier("useState"), <<numericLiteral(0)>>))>>),
      variableDeclaration(<<variableDeclarator(identifier("b"),
        callExpression(identifier("useState"), <<numericLiteral(0)>>))>>),
      variableDeclaration(<<variableDeclarator(identifier("c"),
        callExpression(memberExpression(identifier("React"), identifier("useState")),
                       <<numericLiteral(1)>>))>>),
      expressionStatement(callExpression(identifier("reuse"), <<identifier("a")>>)),
      expressionStatement(callExpression(identifier("Use"), <<identifier("c")>>)),
      returnStatement(callExpression(identifier("used"), <<identifier("b")>>))>>))

StatementsHooks ==
  <<CounterFunction, MyComponentFunction, HelperFunction, CardArrow, ConstX>>

InitHooks == InitWith(StatementsHooks)

SpecHooks == InitHooks /\ [][NextOneCall]_vars

\* The call expressions of a module, in document order.
CallsOf(tree) ==
  LET isCall(n) == n.type = "CallExpression" IN Filter(isCall, NodesOf(tree))

\* A call whose callee is a bare identifier starting with "use".
IsBareUseCall(call) ==
  /\ call.callee.type = "Identifier"
  /\ Len(call.callee.name) >= 3
  /\ SubSeq(call.callee.name, 1, 3) = "use"

\* C20: the hooks are the calls whose callee is a bare identifier starting
\* with "use", one entry per call, in document order, a hook called n times
\* giving n entries; a call with any other callee gives no entry.
C20_OneEntryPerUseCall ==
  LET calls == CallsOf(ast)
      useCalls == { i \in 1..Len(calls) : IsBareUseCall(calls[i]) }
      \* the position among the hooks of the i-th call of the module
      rank(i) == Cardinality({ j \in useCalls : j <= i })
  IN "HookAnalyzer" \in ran =>
       /\ Len(context.hooks) = Cardinality(useCalls)
       /\ \A i \in useCalls : context.hooks[rank(i)].name = calls[i].callee.name
       /\ Len(context.hooks) = Len(calls) - Cardinality((1..Len(calls)) \ useCalls)

\* HookAnalyzer has run over a module that calls useState twice, then
\* React.useState, reuse, Use and used: two entries for useState, one for
\* used, none for the other three calls.
C20_Witness ==
  /\ "HookAnalyzer" \in ran
  /\ ast = program(<<CounterFunction>>)
  /\ Len(CallsOf(ast)) = 6
  /\ Len(context.hooks) = 3
  /\ context.hooks[1].name = "useState"
  /\ context.hooks[2].name = "useState"
  /\ context.hooks[3].name = "used"

(***************************************************************************)
(* Variant configurations: one call of analyze over modules that call cva  *)
(* in different positions and with different arguments.                    *)
(***************************************************************************)
\* const wrapped = wrap(cva("a"));
CvaAsArgument ==
  variableDeclaration(<<variableDeclarator(identifier("wrapped"),
    callExpression(identifier("wrap"),
      <<callExpression(identifier("cva"), <<stringLiteral("a")>>)>>))>>)

\* cva("b");
CvaStatement ==
  expressionStatement(callExpression(identifier("cva"), <<stringLiteral("b")>>))

\* const { root } = cva("c");
CvaDestructured ==
  variableDeclaration(<<variableDeclarator(
    objectPattern(<<objectProperty(identifier("root"), identifier("root"))>>),
    callExpression(identifier("cva"), <<stringLiteral("c")>>))>>)

\* export default cva("d");
CvaDefaultExport ==
  exportDefaultDeclaration(callExpression(identifier("cva"), <<stringLiteral("d")>>))

\* function make() {
\*   const first = cva("x"), second = cva();
\*   return lib.cva("f"); }
MakeFunction ==
  functionDeclaration(identifier("make"), <<>>,
    blockStatement(<<
      variableDeclaration(<<
        variableDeclarator(identifier("first"),
          callExpression(identifier("cva"), <<stringLiteral("x")>>)),
        variableDeclarator(identifier("second"),
          callExpression(identifier("cva"), <<>>))>>),
      returnStatement(
        callExpression(memberExpression(identifier("lib"), identifier("cva")),
                       <<stringLiteral("f")>>))>>))

\* const full = cva("base", {
\*   compoundVariants: [{ size: "sm", class: "m-1" }],
\*   variants: { size: { sm: "p-1" } },
\*   defaultVariants: { size: "sm" } });
FullVariants ==
  variableDeclaration(<<variableDeclarator(identifier("full"),
    callExpression(identifier("cva"),
      <<stringLiteral("base"),
        objectExpression(<<
          objectProperty(identifier("compoundVariants"),
            arrayExpression(<<objectExpression(<<
              objectProperty(identifier("size"), stringLiteral("sm")),
              objectProperty(identifier("class"), stringLiteral("m-1"))>>)>>)),
          objectProperty(identifier("variants"),
            objectExpression(<<objectProperty(identifier("size"),
              objectExpression(<<
                objectProperty(identifier("sm"), stringLiteral("p-1"))>>))>>)),
          objectProperty(identifier("defaultVariants"),
            objectExpression(<<
              objectProperty(identifier("size"), stringLiteral("sm"))>>))>>)>>))>>)

\* const loose = cva("l", options), only = cva("o", { defaultVariants: { size: "sm" } });
LooseVariants ==
  variableDeclaration(<<
    variableDeclarator(identifier("loose"),
      callExpression(identifier("cva"), <<stringLiteral("l"), identifier("options")>>)),
    variableDeclarator(identifier("only"),
      callExpression(identifier("cva"),
        <<stringLiteral("o"),
          objectExpression(<<
            objectProperty(identifier("defaultVariants"),
              objectExpression(<<
                objectProperty(identifier("size"), stringLiteral("sm"))>>))>>)>>))>>)

\* const twice = cva("t", { variants: { a: { x: "p-1" } }, variants: { b: { y: "m-1" } } });
TwiceVariants ==
  variableDeclaration(<<variableDeclarator(identifier("twice"),
    callExpression(identifier("cva"),
      <<stringLiteral("t"),
        objectExpression(<<
          objectProperty(identifier("variants"),
            objectExpression(<<objectProperty(identifier("a"),
              objectExpression(<<
                objectProperty(identifier("x"), stringLiteral("p-1"))>>))>>)),
          objectProperty(identifier("variants"),
            objectExpression(<<objectProperty(identifier("b"),
              objectExpression(<<
                objectProperty(identifier("y"), stringLiteral("m-1"))>>))>>))>>)>>))>>)

\* const merged = cva("s", {
\*   variants: { ...{ a: "x" }, ...base, ...1, ...true, ...null, own: "y" } });
MergedVariants ==
  variableDeclaration(<<variableDeclarator(identifier("merged"),
    callExpression(identifier("cva"),
      <<stringLiteral("s"),
        objectExpression(<<
          objectProperty(identifier("variants"),
            objectExpression(<<
              spreadElement(objectExpression(<<
                objectProperty(identifier("a"), stringLiteral("x"))>>)),
              spreadElement(identifier("base")),
              spreadElement(numericLiteral(1)),
              spreadElement(booleanLiteral(TRUE)),
              spreadElement(nullLiteral),
              objectProperty(identifier("own"), stringLiteral("y"))>>))>>)>>))>>)

\* const listed = cva("s", { variants: { own: "y", ...["p-1", "q"], ...make("z") } });
ListedVariants ==
  variableDeclaration(<<variableDeclarator(identifier("listed"),
    callExpression(identifier("cva"),
      <<stringLiteral("s"),
        objectExpression(<<
          objectProperty(identifier("variants"),
            objectExpression(<<
              objectProperty(identifier("own"), stringLiteral("y")),
              spreadElement(arrayExpression(<<stringLiteral("p-1"), stringLiteral("q")>>)),
              spreadElement(callExpression(identifier("make"),
                                           <<stringLiteral("z")>>))>>))>>)>>))>>)

\* const quoted = cva("say \"hi\" \\ p-1", {
\*   variants: { "a\"b": `line
\* break`, n: 42, off: false, none: null, list: [] } });
QuotedVariants ==
  variableDeclaration(<<variableDeclarator(identifier("quoted"),
    callExpression(identifier("cva"),
      <<stringLiteral("say \"hi\" \\ p-1"),
        objectExpression(<<
          objectProperty(identifier("variants"),
            objectExpression(<<
              objectProperty(stringLiteral("a\"b"),
                templateLiteral(<<templateElement("line\nbreak")>>, <<>>)),
              objectProperty(identifier("n"), numericLiteral(42)),
              objectProperty(identifier("off"), booleanLiteral(FALSE)),
              objectProperty(identifier("none"), nullLiteral),
              objectProperty(identifier("list"), arrayExpression(<<>>))>>))>>)>>))>>)

\* const huge = cva("h", { variants: { big: 1e999 } });
HugeVariants ==
  variableDeclaration(<<variableDeclarator(identifier("huge"),
    callExpression(identifier("cva"),
      <<stringLiteral("h"),
        objectExpression(<<
          objectProperty(identifier("variants"),
            objectExpression(<<
              objectProperty(identifier("big"), infiniteLiteral)>>))>>)>>))>>)

StatementsCva ==
  <<ButtonVariants, PlainVariants, CvaAsArgument, CvaStatement, CvaDestructured,
    CvaDefaultExport, MakeFunction, FullVariants, LooseVariants, TwiceVariants,
    MergedVariants, ListedVariants, QuotedVariants, HugeVariants>>

InitCva == InitWith(StatementsCva)

SpecCva == InitCva /\ [][NextOneCall]_vars

\* The calls of the identifier cva in a module, in document order.
CvaCallsOf(tree) ==
  LET isCva(n) == /\ n.type = "CallExpression"
                  /\ n.callee.type = "Identifier"
                  /\ n.callee.name = "cva"
  IN Filter(isCva, NodesOf(tree))

\* The variable declarators of a module initialized by a call of the
\* identifier cva and declaring an identifier, in document order.
CvaDeclaratorsOf(tree) ==
  LET declares(n) == /\ n.type = "VariableDeclarator"
                     /\ n.id.type = "Identifier"
                     /\ n.init.type = "CallExpression"
                     /\ n.init.callee.type = "Identifier"
                     /\ n.init.callee.name = "cva"
  IN Filter(declares, NodesOf(tree))

\* C21: cvaConfigs has one entry per variable declarator that declares an
\* identifier and is initialized by a call of cva, in document order, with
\* the variable's name; a cva call anywhere else gives no entry.
C21_OneConfigPerDeclarator ==
  LET declarators == CvaDeclaratorsOf(ast)
  IN "CVAAnalyzer" \in ran =>
       /\ Len(context.cvaConfigs) = Len(declarators)
       /\ \A k \in 1..Len(declarators) :
            context.cvaConfigs[k].variableName = declarators[k].id.name
       /\ Len(context.cvaConfigs) <= Len(CvaCallsOf(ast))

\* CVAAnalyzer has run over a module with a cva call passed to another call
\* and a function declaring two variables with cva: the two variables are the
\* configurations, of three cva calls.
C21_Witness ==
  /\ "CVAAnalyzer" \in ran
  /\ ast = program(<<CvaAsArgument, MakeFunction>>)
  /\ Len(CvaCallsOf(ast)) = 3
  /\ Len(context.cvaConfigs) = 2
  /\ context.cvaConfigs[1].variableName = "first"
  /\ context.cvaConfigs[2].variableName = "second"

\* CVAAnalyzer has run over modules whose only cva call is an expression
\* statement, the initializer of a destructuring, or a default export: no
\* configuration.
C21_WitnessOtherPositions ==
  /\ "CVAAnalyzer" \in ran
  /\ ast \in {program(<<CvaStatement>>), program(<<CvaDestructured>>),
              program(<<CvaDefaultExport>>)}
  /\ context.cvaConfigs = <<>>

\* The permutations of 1..n.
PermutationsOf(n) == { f \in [1..n -> 1..n] : \A i, j \in 1..n : f[i] = f[j] => i = j }

\* The cva calls with a second argument that is an object expression.
HasConfigObject(call) ==
  /\ Len(call.arguments) > 1
  /\ call.arguments[2].type = "ObjectExpression"

\* The call with the properties of its second argument in the order `f`.
Permuted(call, f) ==
  LET props == call.arguments[2].properties
  IN [call EXCEPT !.arguments[2].properties = [i \in 1..Len(props) |-> props[f[i]]]]

\* The names of the identifier-keyed properties of the second argument of a
\* cva call; none when that argument is missing or is not an object.
ConfigKeysOf(call) ==
  IF ~HasConfigObject(call) THEN <<>>
  ELSE LET props == call.arguments[2].properties
           keyed == { i \in 1..Len(props) : /\ props[i].type = "ObjectProperty"
                                            /\ props[i].key.type = "Identifier" }
           keyOf(i) == IF i \in keyed THEN <<props[i].key.name>> ELSE <<>>
       IN Flat(Map(keyOf, Range(Len(props))))

\* The value stored under a key of a JSON object.
ValueAt(object, key) ==
  object.v[CHOOSE i \in 1..Len(object.v) : object.v[i].key = key].value

\* The keys of a JSON object, in order.
KeysOf(object) == LET keyOf(e) == e.key IN Map(keyOf, object.v)

\* The keys of a reconstructed configuration with their empty defaults.
ConfigDefaults ==
  <<[key |-> "variants", value |-> JObject(<<>>)],
    [key |-> "defaultVariants", value |-> JObject(<<>>)],
    [key |-> "compoundVariants", value |-> JArray(<<>>)]>>

\* The configuration recorded for the k-th declarator has the four keys, and
\* the empty default for each property its call does not give.
ConfigShape(call, text) ==
  LET parsed == JSONparse(text)
  IN /\ parsed.ok
     /\ KeysOf(parsed.value) = <<"base", "variants", "defaultVariants", "compoundVariants">>
     /\ \A d \in 1..Len(ConfigDefaults) :
          ~Has(ConfigKeysOf(call), ConfigDefaults[d].key) =>
            ValueAt(parsed.value, ConfigDefaults[d].key) = ConfigDefaults[d].value
     /\ Len(call.arguments) = 0 => ValueAt(parsed.value, "base") = JString("")

\* The configuration recorded for a call is the one reconstructed from the
\* call with the properties of its second argument in any other order.
ConfigOrderFree(call, text) ==
  HasConfigObject(call) =>
    \A f \in PermutationsOf(Len(call.arguments[2].properties)) :
      text = JSONstringify(parseCvaConfig(Permuted(call, f)))

\* No two properties of the second argument of the call have the same name.
DistinctConfigKeys(call) ==
  LET keys == ConfigKeysOf(call)
  IN \A i, j \in 1..Len(keys) : keys[i] = keys[j] => i = j

\* C22: a reconstructed configuration has the keys base, variants,
\* defaultVariants and compoundVariants, does not change under a permutation
\* of the properties of the second argument, and has the empty default for
\* each property that is absent.
C22_OrderIndependent ==
  LET declarators == CvaDeclaratorsOf(ast)
  IN "CVAAnalyzer" \in ran =>
       \A k \in 1..Len(declarators) :
         /\ ConfigShape(declarators[k].init, context.cvaConfigs[k].configObject)
         /\ ConfigOrderFree(declarators[k].init, context.cvaConfigs[k].configObject)

\* C22, for second arguments whose properties have distinct names: the
\* reconstructed configuration has the four keys, the empty default for each
\* absent property, and does not change under a permutation of the properties.
C22_OrderIndependentDistinctKeys ==
  LET declarators == CvaDeclaratorsOf(ast)
  IN "CVAAnalyzer" \in ran =>
       \A k \in 1..Len(declarators) :
         /\ ConfigShape(declarators[k].init, context.cvaConfigs[k].configObject)
         /\ DistinctConfigKeys(declarators[k].init) =>
              ConfigOrderFree(declarators[k].init, context.cvaConfigs[k].configObject)

\* CVAAnalyzer has run over a module whose cva calls give the three
\* properties in the order compoundVariants, variants, defaultVariants, give
\* defaultVariants only, and give an identifier as the second argument.
C22_Witness ==
  /\ "CVAAnalyzer" \in ran
  /\ ast = program(<<FullVariants, LooseVariants>>)
  /\ Len(context.cvaConfigs) = 3
  /\ ConfigKeysOf(CvaDeclaratorsOf(ast)[1].init)
       = <<"compoundVariants", "variants", "defaultVariants">>
  /\ JSONparse(context.cvaConfigs[1].configObject).value =
       JObject(<<[key |-> "base", value |-> JString("base")],
                 [key |-> "variants", value |->
                    JObject(<<[key |-> "size", value |->
                      JObject(<<[key |-> "sm", value |-> JString("p-1")]>>)]>>)],
                 [key |-> "defaultVariants", value |->
                    JObject(<<[key |-> "size", value |-> JString("sm")]>>)],
                 [key |-> "compoundVariants", value |->
                    JArray(<<JObject(<<[key |-> "size", value |-> JString("sm")],
                                       [key |-> "class", value |-> JString("m-1")]>>)>>)]>>)
  /\ ValueAt(JSONparse(context.cvaConfigs[2].configObject).value, "variants") = JObject(<<>>)
  /\ ValueAt(JSONparse(context.cvaConfigs[3].configObject).value, "defaultVariants")
       = JObject(<<[key |-> "size", value |-> JString("sm")]>>)

\* The object expression given as `variants` in a cva call, as <<object>>;
\* <<>> when the call gives none.
VariantsObjectOf(call) ==
  IF ~HasConfigObject(call) THEN <<>>
  ELSE LET props == call.arguments[2].properties
           given == { i \in 1..Len(props) : /\ props[i].type = "ObjectProperty"
                                            /\ props[i].key.type = "Identifier"
                                            /\ props[i].key.name = "variants" }
           first == CHOOSE i \in given : \A j \in given : i <= j
       IN IF given # {} /\ props[first].value.type = "ObjectExpression"
          THEN <<props[first].value>> ELSE <<>>

\* An object expression without its i-th property.
WithoutProperty(object, i) ==
  [object EXCEPT !.properties =
     SubSeq(@, 1, i - 1) \o SubSeq(@, i + 1, Len(@))]

\* The positions of the spread elements of an object expression.
SpreadsOf(object) ==
  { i \in 1..Len(object.properties) : object.properties[i].type = "SpreadElement" }

\* What the spread at position i of the `variants` object contributes to the
\* recorded variants: nothing when `merges` does not hold of its resolved
\* value, its keys (the indices of a sequence) when it does.
SpreadContributes(object, i, recorded, merges(_)) ==
  LET value == extractValue(object.properties[i].argument)
      keys == IF value.t = "object" THEN KeysOf(value)
              ELSE IF value.t = "array"
              THEN [n \in 1..Len(value.v) |-> ToString(n - 1)]
              ELSE <<>>
  IN IF merges(value)
     THEN \A n \in 1..Len(keys) : Has(KeysOf(recorded), keys[n])
     ELSE recorded = extractObject(WithoutProperty(object, i))

\* The recorded variants of every configuration whose call gives a variants
\* object treat each spread of that object as `merges` says.
SpreadsHandled(merges(_)) ==
  LET declarators == CvaDeclaratorsOf(ast)
  IN \A k \in 1..Len(declarators) :
       LET given == VariantsObjectOf(declarators[k].init)
           recorded == ValueAt(JSONparse(context.cvaConfigs[k].configObject).value,
                               "variants")
       IN given # <<>> =>
            \A i \in SpreadsOf(given[1]) : SpreadContributes(given[1], i, recorded, merges)

\* C23: a spread element of an object expression is merged into the result
\* only if its resolved value is a mapping; a spread that resolves to a
\* string, a number, a boolean, null or a sequence adds no key.
C23_SpreadMergesMappingsOnly ==
  LET merges(value) == value.t = "object"
  IN "CVAAnalyzer" \in ran => SpreadsHandled(merges)

\* C23, with sequences merged: a spread that resolves to a mapping adds the
\* keys of the mapping, one that resolves to a sequence adds the indices of
\* the sequence as keys, and one that resolves to a string, a number, a
\* boolean or null adds no key.
C23_SpreadMergesMappingsAndSequences ==
  LET merges(value) == value.t \in {"object", "array"}
  IN "CVAAnalyzer" \in ran => SpreadsHandled(merges)

\* CVAAnalyzer has run over a module with spreads of a mapping, an
\* identifier, a number, a boolean and null in one variants object and of a
\* sequence and a call in another.
C23_Witness ==
  /\ "CVAAnalyzer" \in ran
  /\ ast = program(<<MergedVariants, ListedVariants>>)
  /\ Len(context.cvaConfigs) = 2
  /\ ValueAt(JSONparse(context.cvaConfigs[1].configObject).value, "variants")
       = JObject(<<[key |-> "a", value |-> JString("x")],
                   [key |-> "own", value |-> JString("y")]>>)
  /\ KeysOf(ValueAt(JSONparse(context.cvaConfigs[2].configObject).value, "variants"))
       = <<"0", "1", "own", "type", "callee", "arguments">>

\* A value with null in the place of each number that is not finite.
RECURSIVE FiniteOrNull(_)
FiniteOrNull(value) ==
  LET entry(e) == [key |-> e.key, value |-> FiniteOrNull(e.value)]
  IN CASE value.t = "number" -> IF "infinite" \in DOMAIN value THEN JNull ELSE value
       [] value.t = "array" -> JArray(Map(FiniteOrNull, value.v))
       [] value.t = "object" -> JObject(Map(entry, value.v))
       [] OTHER -> value

\* C28: every configObject written by CVAAnalyzer is JSON text that parses,
\* to a value equal to the configuration that was reconstructed.
C28_ConfigRoundTrip ==
  LET declarators == CvaDeclaratorsOf(ast)
  IN "CVAAnalyzer" \in ran =>
       \A k \in 1..Len(declarators) :
         LET parsed == JSONparse(context.cvaConfigs[k].configObject)
         IN /\ parsed.ok
            /\ parsed.value = parseCvaConfig(declarators[k].init)

\* C28, with numbers that are not finite: every configObject written by
\* CVAAnalyzer is JSON text that parses, to the configuration that was
\* reconstructed with null in the place of each number that is not finite.
C28_ConfigRoundTripFinite ==
  LET declarators == CvaDeclaratorsOf(ast)
  IN "CVAAnalyzer" \in ran =>
       \A k \in 1..Len(declarators) :
         LET parsed == JSONparse(context.cvaConfigs[k].configObject)
         IN /\ parsed.ok
            /\ parsed.value = FiniteOrNull(parseCvaConfig(declarators[k].init))

\* CVAAnalyzer and StylingLibraryAnalyzer have run over a module whose cva
\* call has strings with quotes, a backslash and a line break; the text read
\* back has them, and the utility class of the base string was found in it.
C28_Witness ==
  /\ {"CVAAnalyzer", "StylingLibraryAnalyzer"} \subseteq ran
  /\ ast = program(<<QuotedVariants>>)
  /\ Len(context.cvaConfigs) = 1
  /\ JSONparse(context.cvaConfigs[1].configObject).value =
       JObject(<<[key |-> "base", value |-> JString("say \"hi\" \\ p-1")],
                 [key |-> "variants", value |->
                    JObject(<<[key |-> "a\"b", value |-> JString("line\nbreak")],
                              [key |-> "n", value |-> JNumber(42)],
                              [key |-> "off", value |-> JBoolean(FALSE)],
                              [key |-> "none", value |-> JNull],
                              [key |-> "list", value |-> JArray(<<>>)]>>)],
                 [key |-> "defaultVariants", value |-> JObject(<<>>)],
                 [key |-> "compoundVariants", value |-> JArray(<<>>)]>>)
  /\ context.stylingLibrary.type = "cva"

(***************************************************************************)
(* Class-name utilities: one call of analyze over modules that import the  *)
(* utilities under their own name or another and call them.                *)
(***************************************************************************)
\* import { clsx } from "clsx";
ImportClsx ==
  importDeclaration(<<importSpecifier(identifier("clsx"), identifier("clsx"))>>,
                    stringLiteral("clsx"))

\* import { cx as classes } from "classnames";
ImportAlias ==
  importDeclaration(<<importSpecifier(identifier("classes"), identifier("cx"))>>,
                    stringLiteral("classnames"))

\* const a = clsx("p-1");
ClsxCall ==
  variableDeclaration(<<variableDeclarator(identifier("a"),
    at(callExpression(identifier("clsx"), <<stringLiteral("p-1")>>), 1, 10))>>)

\* const b = cn("m-1"), c = classes("x");
CnCalls ==
  variableDeclaration(<<
    variableDeclarator(identifier("b"),
      at(callExpression(identifier("cn"), <<stringLiteral("m-1")>>), 2, 10)),
    variableDeclarator(identifier("c"),
      at(callExpression(identifier("classes"), <<stringLiteral("x")>>), 2, 23))>>)

\* const d = cx("y"), e = classnames("z"), f = join("w");
OtherCalls ==
  variableDeclaration(<<
    variableDeclarator(identifier("d"),
      at(callExpression(identifier("cx"), <<stringLiteral("y")>>), 3, 10)),
    variableDeclarator(identifier("e"),
      at(callExpression(identifier("classnames"), <<stringLiteral("z")>>), 3, 23)),
    variableDeclarator(identifier("f"),
      at(callExpression(identifier("join"), <<stringLiteral("w")>>), 3, 44))>>)

\* const g = cn(props.count > 5 ? "big" : "small", kind === "x" ? on : off,
\*              active ? "a" : "b", count > 5 ? "r" : "g");
ConditionalCall ==
  variableDeclaration(<<variableDeclarator(identifier("g"),
    at(callExpression(identifier("cn"),
      <<conditionalExpression(
          binaryExpression(">", memberExpression(identifier("props"), identifier("count")),
                           numericLiteral(5)),
          stringLiteral("big"), stringLiteral("small")),
        conditionalExpression(
          binaryExpression("===", identifier("kind"), stringLiteral("x")),
          identifier("on"), identifier("off")),
        conditionalExpression(identifier("active"), stringLiteral("a"), stringLiteral("b")),
        conditionalExpression(
          binaryExpression(">", identifier("count"), numericLiteral(5)),
          stringLiteral("r"), stringLiteral("g"))>>), 4, 10))>>)

StatementsClassNames ==
  <<ImportCn, ImportClsx, ImportAlias, ClsxCall, CnCalls, OtherCalls, ConditionalCall>>

InitClassNames == InitWith(StatementsClassNames)

SpecClassNames == InitClassNames /\ [][NextOneCall]_vars

\* The local names the named import specifiers of a module give to cn, clsx,
\* classnames or cx.
ImportedUtilityNames(tree) ==
  LET nodes == NodesOf(tree)
  IN { nodes[i].local.name :
         i \in { j \in 1..Len(nodes) :
                   /\ nodes[j].type = "ImportSpecifier"
                   /\ nodes[j].imported.type = "Identifier"
                   /\ nodes[j].imported.name \in {"cn", "clsx", "classnames", "cx"} } }

\* C24: the kind of a recorded usage is 'clsx' when the callee is clsx,
\* imported by a named specifier or not; 'cn' when the callee is cn or a local
\* name collected from the imports; 'classnames' otherwise.
C24_KindOfUsage ==
  LET calls == UtilityCallsOf(ast)
      usage == context.classNamesUsage.usage
      kind(name) == IF name = "clsx" THEN "clsx"
                    ELSE IF name = "cn" \/ name \in ImportedUtilityNames(ast) THEN "cn"
                    ELSE "classnames"
  IN "ClassNamesAnalyzer" \in ran =>
       /\ Len(usage) = Len(calls)
       /\ \A k \in 1..Len(calls) : usage[k].type = kind(calls[k].callee.name)

\* An operand of a binary test as text: the name of an identifier,
\* "object.property" for a member expression, the value of a numeric or
\* string literal.
OperandText(node) ==
  CASE node.type = "Identifier" -> node.name
    [] node.type = "MemberExpression" -> node.object.name \o "." \o node.property.name
    [] node.type = "NumericLiteral" -> ToString(node.value)
    [] node.type = "StringLiteral" -> node.value
    [] OTHER -> ""

\* The test of a conditional argument as text.
ConditionText(test) ==
  CASE test.type = "BinaryExpression" ->
         OperandText(test.left) \o " " \o test.operator \o " " \o OperandText(test.right)
    [] test.type = "Identifier" -> test.name
    [] OTHER -> ""

\* C25: the condition recorded for a conditional argument of a utility call
\* is "<left> <operator> <right>" for a binary test, each operand being an
\* identifier name, "object.property" or the value of a numeric or string
\* literal, and the identifier name for a test that is an identifier.
C25_ConditionText ==
  LET calls == UtilityCallsOf(ast)
      usage == context.classNamesUsage.usage
  IN "ClassNamesAnalyzer" \in ran =>
       \A k \in 1..Len(calls) :
         \A i \in 1..Len(calls[k].arguments) :
           calls[k].arguments[i].type = "ConditionalExpression" =>
             /\ usage[k].arguments[i].type = "conditional"
             /\ ObjectGet(usage[k].arguments[i].value, "condition")
                  = JString(ConditionText(calls[k].arguments[i].test))

\* The number of nodes of a module that satisfy a test.
CountNodes(tree, test(_)) ==
  LET nodes == NodesOf(tree) IN Cardinality({ i \in 1..Len(nodes) : test(nodes[i]) })

\* C26: an import adds 50 to styled-components only when its source is
\* exactly "styled-components" and 50 to emotion only when its source is
\* exactly "@emotion/react": with the 30 of each styled tagged template and
\* of each css call, these are the whole scores of the two categories.
C26_ExactImportSources ==
  LET styledImport(n) == /\ n.type = "ImportDeclaration"
                         /\ n.source.value = "styled-components"
      emotionImport(n) == /\ n.type = "ImportDeclaration"
                          /\ n.source.value = "@emotion/react"
      styledTag(n) == /\ n.type = "TaggedTemplateExpression"
                      /\ n.tag.type = "Identifier"
                      /\ (n.tag.name = "styled" \/ endsWith(n.tag.name, "Styled"))
      cssCall(n) == /\ n.type = "CallExpression"
                    /\ n.callee.type = "Identifier"
                    /\ n.callee.name = "css"
  IN "StylingLibraryAnalyzer" \in ran =>
       /\ stylingScores["styled-components"].score =
            50 * CountNodes(ast, styledImport)
              + 30 * CountNodes(ast, styledTag)
       /\ stylingScores["emotion"].score =
            50 * CountNodes(ast, emotionImport)
              + 30 * CountNodes(ast, cssCall)

(***************************************************************************)
(* Markup elements: one call of analyze over modules with intrinsic and    *)
(* component elements that carry ordinary and spread attributes.           *)
(***************************************************************************)
\* const mixed = <nav id="m" {...rest} role={kind} hidden data={count + 1}>
\*   <Item key="k" {...rest} /></nav>;
MixedNav ==
  variableDeclaration(<<variableDeclarator(identifier("mixed"),
    jsxElement(jsxIdentifier("nav"),
      <<jsxAttribute(jsxIdentifier("id"), stringLiteral("m")),
        jsxSpreadAttribute(identifier("rest")),
        jsxAttribute(jsxIdentifier("role"), jsxExpressionContainer(identifier("kind"))),
        jsxAttribute(jsxIdentifier("hidden"), NullNode),
        jsxAttribute(jsxIdentifier("data"),
          jsxExpressionContainer(
            binaryExpression("+", identifier("count"), numericLiteral(1))))>>,
      <<jsxElement(jsxIdentifier("Item"),
          <<jsxAttribute(jsxIdentifier("key"), stringLiteral("k")),
            jsxSpreadAttribute(identifier("rest"))>>, <<>>)>>))>>)

StatementsMarkup == <<Widget, Rows, CardArrow, MyComponentFunction, MixedNav>>

InitMarkup == InitWith(StatementsMarkup)

SpecMarkup == InitMarkup /\ [][NextOneCall]_vars

\* The value recorded for an attribute: that of a string literal, or of a
\* string literal or identifier in braces; <<>> (null) for anything else.
AttributeValueOf(attr) ==
  IF attr.value.type = "StringLiteral" THEN <<attr.value.value>>
  ELSE IF attr.value.type = "JSXExpressionContainer"
  THEN CASE attr.value.expression.type = "StringLiteral" -> <<attr.value.expression.value>>
         [] attr.value.expression.type = "Identifier" -> <<attr.value.expression.name>>
         [] OTHER -> <<>>
  ELSE <<>>

\* The non-spread entries of props, reduced to name and value.
WithoutSpreads(props) ==
  LET ordinary(p) == ~p.isSpread
      reduced(p) == [name |-> p.name, value |-> p.value]
  IN Map(reduced, Filter(ordinary, props))

MaxIndicators == 2

\* The scores a category of a drawn table can have: none, below, at and
\* above the threshold of 50, and the highest a single rule gives.
ScoreValues == {0, 30, 50, 55, 100}

\* The entries a category can have: score 0 with no indicator, or a positive
\* score with the indicators of the rules that gave it.
ScoreEntries(lib) ==
  {[score |-> 0, indicators |-> <<>>]} \cup
  {[score |-> v, indicators |-> [i \in 1..n |-> lib \o " rule " \o toString(i)]] :
     v \in ScoreValues \ {0}, n \in 1..MaxIndicators}

\* The tables: no rule scores the category unknown.
ScoreTables ==
  {[newScores EXCEPT !["tailwind"] = tw, !["styled-components"] = sc,
                     !["emotion"] = em, !["cva"] = cva] :
     tw \in ScoreEntries("tailwind"), sc \in ScoreEntries("styled-components"),
     em \in ScoreEntries("emotion"), cva \in ScoreEntries("cva")}

InitConfidence ==
  /\ ast = program(<<>>)
  /\ filePath = ""
  /\ pc = "scored"
  /\ ran = {}
  /\ context = createComponentContext("")
  /\ results = <<>>
  /\ reordered = FALSE
  /\ stylingScores \in ScoreTables

\* The end of StylingLibraryAnalyzer.analyze: calculateConfidence applied to
\* the scores, and type, confidence and indicators stored in the context.
CalculateConfidence ==
  /\ pc = "scored"
  /\ LET result == calculateConfidence(stylingScores)
     IN context' = [context EXCEPT !.stylingLibrary =
                      [type |-> result.type,
                       confidence |-> result.confidence,
                       indicators |-> result.scores[result.type].indicators]]
  /\ pc' = "calculated"
  /\ ran' = ran \cup {"StylingLibraryAnalyzer"}
  /\ UNCHANGED <<ast, filePath, results, reordered, stylingScores>>

NextConfidence == CalculateConfidence

SpecConfidence == InitConfidence /\ [][NextConfidence]_vars

\* The highest score among the categories other than the one given.
HighestOther(scores, type) ==
  LET others == DOMAIN scores \ {type}
  IN CHOOSE m \in {scores[lib].score : lib \in others} :
       \A lib \in others : scores[lib].score <= m

\* The note calculateConfidence appends for a runner-up.
AlsoUsing(lib, score) == "Also using " \o lib \o " (score: " \o toString(score) \o ")"

\* C29: for every combination of scores, the runner-up of calculateConfidence
\* is the highest score among the categories other than the winner: the
\* confidence is clamped to [60, 80] and the note names a category with that
\* score exactly when some category other than the winner scores above 50.
C29_RunnerUpIsHighestOther ==
  (pc = "calculated" /\ context.stylingLibrary.type # "unknown") =>
    LET result == context.stylingLibrary
        winner == stylingScores[result.type]
        runnerUp == HighestOther(stylingScores, result.type)
        boosted == Min(100, winner.score + 15 * Len(winner.indicators))
        clamped == 60 <= result.confidence /\ result.confidence <= 80
        noted == result.indicators # winner.indicators
    IN /\ (runnerUp > 50) <=> noted
       /\ noted =>
            /\ result.confidence = Max(60, Min(boosted, 80))
            /\ clamped
            /\ \E lib \in DOMAIN stylingScores \ {result.type} :
                 /\ stylingScores[lib].score = runnerUp
                 /\ result.indicators = Append(winner.indicators, AlsoUsing(lib, runnerUp))
       /\ ~noted => result.confidence = boosted

\* calculateConfidence has been applied to tailwind 55, styled-components 30,
\* emotion 100, cva 100: emotion wins, the runner-up is cva with the same
\* score, found after tailwind was demoted, and the clamp fires.
C29_Witness ==
  /\ pc = "calculated"
  /\ stylingScores["tailwind"].score = 55
  /\ stylingScores["styled-components"].score = 30
  /\ stylingScores["emotion"].score = 100
  /\ stylingScores["cva"].score = 100
  /\ context.stylingLibrary.type = "emotion"
  /\ context.stylingLibrary.confidence = 80
  /\ context.stylingLibrary.indicators =
       Append(stylingScores["emotion"].indicators, AlsoUsing("cva", 100))

\* calculateConfidence has been applied to tailwind 55, emotion 100 and
\* nothing else: the runner-up is the demoted tailwind.
C29_WitnessDemoted ==
  /\ pc = "calculated"
  /\ stylingScores["tailwind"].score = 55
  /\ stylingScores["styled-components"].score = 0
  /\ stylingScores["emotion"].score = 100
  /\ stylingScores["cva"].score = 0
  /\ context.stylingLibrary.indicators =
       Append(stylingScores["emotion"].indicators, AlsoUsing("tailwind", 55))

(***************************************************************************)
(* The stored result of StylingLibraryAnalyzer against the scores map.     *)
(***************************************************************************)
\* The elements of a sequence.
ElementsOf(seq) == {seq[i] : i \in 1..Len(seq)}

\* Confidence within 0..100, and unknown, confidence 0 and no indicators
\* going together.
ResultInRange(result) ==
  /\ result.confidence \in 0..100
  /\ (result.type = "unknown") <=> (result.confidence = 0)
  /\ (result.type = "unknown") <=> (result.indicators = <<>>)

\* The indicators of the result are those of the winning category, followed
\* by the runner-up note when a category other than the winner scores above 50.
WinnersIndicators(scores, result) ==
  LET winner == scores[result.type]
      runnerUp == HighestOther(scores, result.type)
  IN IF runnerUp > 50
     THEN \E lib \in DOMAIN scores \ {result.type} :
            /\ scores[lib].score = runnerUp
            /\ result.indicators = Append(winner.indicators, AlsoUsing(lib, runnerUp))
     ELSE result.indicators = winner.indicators

\* No indicator of a category other than the winner is among the indicators
\* of the result.
NoForeignIndicator(scores, result) ==
  \A lib \in DOMAIN scores \ {result.type} :
    ElementsOf(scores[lib].indicators) \cap ElementsOf(result.indicators) = {}

\* C30: in every result of StylingLibraryAnalyzer the confidence is an integer
\* from 0 to 100; type unknown, confidence 0 and empty indicators are
\* equivalent; for a type other than unknown the indicators are exactly those
\* of the winning category (plus the runner-up note when clamped) and contain
\* no indicator of any other category.
C30_ResultShape ==
  "StylingLibraryAnalyzer" \in ran =>
    /\ ResultInRange(context.stylingLibrary)
    /\ context.stylingLibrary.type # "unknown" =>
         /\ WinnersIndicators(stylingScores, context.stylingLibrary)
         /\ NoForeignIndicator(stylingScores, context.stylingLibrary)
====
